---- MODULE Spec2Model ----
(***************************************************************************)
(* OpenAlex MCP server: the tool-call handler, the tool handlers and the   *)
(* request builder (buildQueryString, makeOpenAlexRequest).                *)
(*                                                                         *)
(* Strings are sequences of tokens.  Caller-supplied text is made of       *)
(* one-character tokens; a literal of the source is one token when it      *)
(* holds only unreserved characters and no part of it is ever searched     *)
(* for, and is split into tokens otherwise.  String concatenation is \o.   *)
(***************************************************************************)
EXTENDS Integers, Sequences, FiniteSets, TLC

VARIABLES
    env,      \* process.env: OPENALEX_DEFAULT_EMAIL, OPENALEX_BEARER_TOKEN
    calls,    \* the tool calls of the server, by call id
    qs,       \* buildQueryString on its own: the mapping handed in, the string returned
    rq,       \* makeOpenAlexRequest on its own: endpoint, parameters, request, result
    sw,       \* searchWorks on its own: arguments, request, upstream outcome, result
    log,      \* how the requests served so far ended, when the server serves in sequence
    startup,  \* process.env as it was when the server started
    caller    \* a client's argument mapping, passed to two invocations

vars == <<env, calls, qs, rq, sw, log, startup, caller>>

(***************************************************************************)
(* Bounds                                                                  *)
(***************************************************************************)
\* longest caller-supplied string drawn when a function is checked on its own
MaxLen == 1
\* most entries of a parameter mapping drawn for buildQueryString
MaxEntries == 2

(***************************************************************************)
(* JavaScript / JSON values.                                               *)
(***************************************************************************)
Undefined == [t |-> "undef"]
Null == [t |-> "null"]
Str(s) == [t |-> "str", s |-> s]
Num(n) == [t |-> "num", n |-> n]
Bool(b) == [t |-> "bool", b |-> b]
\* an object: its entries [k, v] in insertion order, keys pairwise distinct
Obj(ent) == [t |-> "obj", ent |-> ent]
Arr(items) == [t |-> "arr", items |-> items]

Entry(k, v) == [k |-> k, v |-> v]

\* ToBoolean: undefined, null, "", 0 and false are falsy
Truthy(v) ==
    CASE v.t = "undef" -> FALSE
      [] v.t = "null" -> FALSE
      [] v.t = "str" -> v.s # <<>>
      [] v.t = "num" -> v.n # 0
      [] v.t = "bool" -> v.b
      [] OTHER -> TRUE

\* a || b
OrElse(a, b) == IF Truthy(a) THEN a ELSE b

Digit(d) ==
    CASE d = 0 -> "0" [] d = 1 -> "1" [] d = 2 -> "2" [] d = 3 -> "3"
      [] d = 4 -> "4" [] d = 5 -> "5" [] d = 6 -> "6" [] d = 7 -> "7"
      [] d = 8 -> "8" [] d = 9 -> "9"

RECURSIVE NumToStr(_)
NumToStr(n) ==
    IF n < 10 THEN <<Digit(n)>> ELSE NumToStr(n \div 10) \o <<Digit(n % 10)>>

\* String(value), also the conversion of ${value} in a template literal
RECURSIVE ToStr(_)
ToStr(v) ==
    CASE v.t = "undef" -> <<"undefined">>
      [] v.t = "null" -> <<"null">>
      [] v.t = "str" -> v.s
      [] v.t = "num" -> NumToStr(v.n)
      [] v.t = "bool" -> IF v.b THEN <<"true">> ELSE <<"false">>
      [] v.t = "obj" -> <<"[object Object]">>
      [] v.t = "arr" ->
            IF v.items = <<>> THEN <<>>
            ELSE LET h == v.items[1]
                     hs == IF h.t \in {"undef", "null"} THEN <<>> ELSE ToStr(h)
                 IN  IF Len(v.items) = 1 THEN hs
                     ELSE hs \o <<",">> \o ToStr(Arr(Tail(v.items)))

HasKey(ent, key) == \E i \in 1..Len(ent) : ent[i].k = key

\* obj.key: undefined when the value is no object or has no such property
Get(v, key) ==
    IF v.t = "obj" /\ HasKey(v.ent, key)
    THEN v.ent[CHOOSE i \in 1..Len(v.ent) : v.ent[i].k = key].v
    ELSE Undefined

\* obj.key = x: replaces the value in place, or appends a new property
Put(v, key, x) ==
    IF HasKey(v.ent, key)
    THEN Obj([i \in 1..Len(v.ent) |->
                 IF v.ent[i].k = key THEN Entry(key, x) ELSE v.ent[i]])
    ELSE Obj(Append(v.ent, Entry(key, x)))

\* const { key, ...rest } = obj: the object without one property
Without(v, key) == Obj(SelectSeq(v.ent, LAMBDA e : e.k # key))

(***************************************************************************)
(* URLSearchParams serialisation (application/x-www-form-urlencoded).      *)
(***************************************************************************)
\* one character: space becomes +, reserved characters are percent-encoded,
\* the characters A-Z a-z 0-9 * - . _ stay as they are
EncodeTok(c) ==
    CASE c = " " -> "+"
      [] c = "&" -> "%26"
      [] c = "=" -> "%3D"
      [] c = "?" -> "%3F"
      [] c = "/" -> "%2F"
      [] c = "," -> "%2C"
      [] c = ":" -> "%3A"
      [] c = "@" -> "%40"
      [] c = "+" -> "%2B"
      [] c = "%" -> "%25"
      [] OTHER -> c

Encode(s) == [i \in 1..Len(s) |-> EncodeTok(s[i])]

RECURSIVE JoinAmp(_)
JoinAmp(parts) ==
    IF parts = <<>> THEN <<>>
    ELSE IF Len(parts) = 1 THEN parts[1]
    ELSE parts[1] \o <<"&">> \o JoinAmp(Tail(parts))

buildQueryStringMutDropFalsy(params) ==
    LET kept == SelectSeq(params.ent, LAMBDA e : Truthy(e.v))
    IN  JoinAmp([i \in 1..Len(kept) |->
            Encode(<<kept[i].k>>) \o <<"=">> \o Encode(ToStr(kept[i].v))])

\* one key=value entry per property whose value is neither undefined nor null
buildQueryString(params) ==
    LET kept == SelectSeq(params.ent, LAMBDA e : e.v.t # "undef" /\ e.v.t # "null")
    IN  JoinAmp([i \in 1..Len(kept) |->
            Encode(<<kept[i].k>>) \o <<"=">> \o Encode(ToStr(kept[i].v))])

(***************************************************************************)
(* Results of the code's steps: a value returned, an error thrown, or an   *)
(* HTTP request issued and awaited.                                        *)
(***************************************************************************)
Return(v) == [kind |-> "return", value |-> v]
Throw(e) == [kind |-> "throw", error |-> e]
Await(request, cont) == [kind |-> "await", request |-> request, cont |-> cont]

\* new Error(message) / a TypeError raised by the runtime
NewError(message) ==
    [instanceofError |-> TRUE, isAxiosError |-> FALSE, message |-> message, response |-> <<>>]

\* an error rejected by axios: response is <<>> or <<[status, statusText]>>
AxiosError(message, response) ==
    [instanceofError |-> TRUE, isAxiosError |-> TRUE, message |-> message, response |-> response]

(***************************************************************************)
(* makeOpenAlexRequest                                                     *)
(***************************************************************************)
OPENALEX_BASE_URL == <<"https://api.openalex.org">>
UserAgentProduct == <<"OpenAlex-MCP-Server/1.0.0 (https://github.com/openalex-mcp-server)">>
FallbackEmail == <<"mcp-server@example.com">>
RequestTimeoutMs == 30000

BuildUrlMutAlwaysMark(endpoint, params) ==
    OPENALEX_BASE_URL \o endpoint \o <<"?">> \o buildQueryString(params)

BuildUrlMutNoCredentials(endpoint, params) ==
    LET queryString ==
            buildQueryString(Without(Without(Without(params, "mailto"), "api_key"),
                                     "bearer_token"))
    IN  OPENALEX_BASE_URL \o endpoint
            \o (IF queryString # <<>> THEN <<"?">> \o queryString ELSE <<>>)

\* the URL: base, endpoint and, when the query string is not empty, ? and it
BuildUrl(endpoint, params) ==
    LET queryString == buildQueryString(params)
    IN  OPENALEX_BASE_URL \o endpoint
            \o (IF queryString # <<>> THEN <<"?">> \o queryString ELSE <<>>)

BuildUserAgentMutEnvFirst(params, e) ==
    UserAgentProduct \o <<" mailto:">> \o
        (IF Truthy(e.OPENALEX_DEFAULT_EMAIL) THEN ToStr(e.OPENALEX_DEFAULT_EMAIL)
         ELSE ToStr(OrElse(Get(params, "mailto"), Str(FallbackEmail))))

\* User-Agent: the product, then mailto: with the parameter, the environment
\* default or the fallback address
BuildUserAgent(params, e) ==
    UserAgentProduct \o
        (IF Truthy(Get(params, "mailto"))
         THEN <<" mailto:">> \o ToStr(Get(params, "mailto"))
         ELSE LET defaultEmail == OrElse(e.OPENALEX_DEFAULT_EMAIL, Str(FallbackEmail))
              IN  <<" mailto:">> \o ToStr(defaultEmail))

BearerTokenMutEnvFirst(params, e) ==
    OrElse(e.OPENALEX_BEARER_TOKEN, Get(params, "bearer_token"))

\* the bearer token: the parameter first, then the environment variable
BearerToken(params, e) == OrElse(Get(params, "bearer_token"), e.OPENALEX_BEARER_TOKEN)

BuildHeaders(params, e) ==
    LET base == ("Accept" :> <<"application/json">>)
                    @@ ("User-Agent" :> BuildUserAgent(params, e))
        bearerToken == BearerToken(params, e)
    IN  IF Truthy(bearerToken)
        THEN base @@ ("Authorization" :> (<<"Bearer ">> \o ToStr(bearerToken)))
        ELSE base

MakeRequestStartMutNoDefault(endpoint, params, e, cont) ==
    IF params.t \in {"undef", "null"}
    THEN Throw(NewError(<<"Cannot convert undefined or null to object">>))
    ELSE Await([method |-> "GET",
                url |-> BuildUrl(endpoint, params),
                headers |-> BuildHeaders(params, e),
                timeout |-> RequestTimeoutMs], cont)

\* makeOpenAlexRequest up to its await: the GET request handed to axios
MakeRequestStart(endpoint, params, e, cont) ==
    LET p == IF params.t = "undef" THEN Obj(<<>>) ELSE params
    IN  IF p.t = "null"
        THEN Throw(NewError(<<"Cannot convert undefined or null to object">>))
        ELSE Await([method |-> "GET",
                    url |-> BuildUrl(endpoint, p),
                    headers |-> BuildHeaders(p, e),
                    timeout |-> RequestTimeoutMs], cont)

MakeRequestSettleMutRethrow(outcome) ==
    IF outcome.kind = "resolve" THEN Return(outcome.data) ELSE Throw(outcome.error)

\* makeOpenAlexRequest after its await: response.data, or the catch block
MakeRequestSettle(outcome) ==
    IF outcome.kind = "resolve"
    THEN Return(outcome.data)
    ELSE LET error == outcome.error
         IN  IF error.isAxiosError
             THEN LET status == IF error.response = <<>> THEN Undefined
                                ELSE Num(error.response[1].status)
                      statusText == IF error.response = <<>> THEN Undefined
                                    ELSE Str(error.response[1].statusText)
                  IN  Throw(NewError(<<"OpenAlex API error: ">> \o ToStr(status) \o <<" - ">>
                                        \o ToStr(OrElse(statusText, Str(error.message)))))
             ELSE Throw(error)

(***************************************************************************)
(* JSON.stringify(value, null, 2)                                          *)
(***************************************************************************)
EscapeTok(c) ==
    CASE c = "\"" -> "\\\""
      [] c = "\\" -> "\\\\"
      [] OTHER -> c

QuoteMutNoEscape(s) == <<"\"">> \o s \o <<"\"">>

Quote(s) == <<"\"">> \o [i \in 1..Len(s) |-> EscapeTok(s[i])] \o <<"\"">>

RECURSIVE Ser(_, _), SerItems(_, _), SerProps(_, _)
\* ind: the indentation of the enclosing level, one "  " token per level
Ser(v, ind) ==
    CASE v.t = "undef" -> <<"null">>
      [] v.t = "null" -> <<"null">>
      [] v.t = "str" -> Quote(v.s)
      [] v.t = "num" -> NumToStr(v.n)
      [] v.t = "bool" -> IF v.b THEN <<"true">> ELSE <<"false">>
      [] v.t = "arr" ->
            IF v.items = <<>> THEN <<"[]">>
            ELSE <<"[">> \o SerItems(v.items, ind \o <<"  ">>) \o <<"\n">> \o ind \o <<"]">>
      [] v.t = "obj" ->
            LET props == SelectSeq(v.ent, LAMBDA e : e.v.t # "undef")
            IN  IF props = <<>> THEN <<"{}">>
                ELSE <<"{">> \o SerProps(props, ind \o <<"  ">>) \o <<"\n">> \o ind \o <<"}">>

SerItems(items, ind) ==
    <<"\n">> \o ind \o Ser(items[1], ind)
        \o (IF Len(items) = 1 THEN <<>> ELSE <<",">> \o SerItems(Tail(items), ind))

SerProps(props, ind) ==
    <<"\n">> \o ind \o Quote(<<props[1].k>>) \o <<": ">> \o Ser(props[1].v, ind)
        \o (IF Len(props) = 1 THEN <<>> ELSE <<",">> \o SerProps(Tail(props), ind))

\* values handed to it here are never undefined at the top level
JSONStringify(v) == Ser(v, <<>>)

(***************************************************************************)
(* The result envelope.                                                    *)
(***************************************************************************)
TextEnvelope(text) == [content |-> <<[type |-> "text", text |-> text]>>]

\* error instanceof Error ? error.message : String(error)
ErrorText(error) == IF error.instanceofError THEN error.message ELSE ToStr(error.value)

ErrorEnvelope(error) ==
    [content |-> <<[type |-> "text", text |-> <<"Error: ">> \o ErrorText(error)]>>,
     isError |-> TRUE]

\* destructuring undefined or null raises a TypeError
DestructureError(key) ==
    NewError(<<"Cannot destructure property '", key, "' of 'args' as it is undefined.">>)

(***************************************************************************)
(* The tool handlers, each up to its await.                                *)
(***************************************************************************)
searchAuthors(args, e) == MakeRequestStart(<<"/authors">>, args, e, "json")
searchSources(args, e) == MakeRequestStart(<<"/sources">>, args, e, "json")
searchInstitutions(args, e) == MakeRequestStart(<<"/institutions">>, args, e, "json")
searchTopics(args, e) == MakeRequestStart(<<"/topics">>, args, e, "json")
searchPublishers(args, e) == MakeRequestStart(<<"/publishers">>, args, e, "json")
searchFunders(args, e) == MakeRequestStart(<<"/funders">>, args, e, "json")
autocomplete(args, e) == MakeRequestStart(<<"/autocomplete">>, args, e, "json")

SummarySelect ==
    <<"id", ",", "doi", ",", "title", ",", "publication_year", ",", "type", ",",
      "cited_by_count", ",", "authorships", ",", "concepts", ",", "primary_location", ",",
      "open_access", ",", "best_oa_location">>

searchWorksMutKeepSelect(args, e) ==
    IF args.t \in {"undef", "null"} THEN Throw(DestructureError("view"))
    ELSE LET view == Get(args, "view")
             searchArgs == Without(args, "view")
         IN  IF view.t = "str" /\ view.s = <<"summary">>
             THEN MakeRequestStart(<<"/works">>,
                                   IF HasKey(searchArgs.ent, "select") THEN searchArgs
                                   ELSE Put(searchArgs, "select", Str(SummarySelect)),
                                   e, "summary")
             ELSE MakeRequestStart(<<"/works">>, args, e, "json")

searchWorks(args, e) ==
    IF args.t \in {"undef", "null"} THEN Throw(DestructureError("view"))
    ELSE LET view == Get(args, "view")
             searchArgs == Without(args, "view")
         IN  IF view.t = "str" /\ view.s = <<"summary">>
             THEN MakeRequestStart(<<"/works">>,
                                   Put(searchArgs, "select", Str(SummarySelect)), e, "summary")
             ELSE MakeRequestStart(<<"/works">>, args, e, "json")

getEntityMutForwardAll(args, e) ==
    IF args.t \in {"undef", "null"} THEN Throw(DestructureError("entity_type"))
    ELSE MakeRequestStart(<<"/">> \o ToStr(Get(args, "entity_type")) \o <<"/">>
                              \o ToStr(Get(args, "openalex_id")), args, e, "json")

getEntityMutValidate(args, e) ==
    IF args.t \in {"undef", "null"} THEN Throw(DestructureError("entity_type"))
    ELSE IF ~Truthy(Get(args, "entity_type")) \/ ~Truthy(Get(args, "openalex_id"))
    THEN Throw(NewError(<<"entity_type and openalex_id are required">>))
    ELSE LET select == Get(args, "select")
             mailto == Get(args, "mailto")
             p0 == Obj(<<>>)
             p1 == IF Truthy(select) THEN Put(p0, "select", select) ELSE p0
             p2 == IF Truthy(mailto) THEN Put(p1, "mailto", mailto) ELSE p1
         IN  MakeRequestStart(<<"/">> \o ToStr(Get(args, "entity_type")) \o <<"/">>
                                  \o ToStr(Get(args, "openalex_id")), p2, e, "json")

getEntity(args, e) ==
    IF args.t \in {"undef", "null"} THEN Throw(DestructureError("entity_type"))
    ELSE LET select == Get(args, "select")
             mailto == Get(args, "mailto")
             p0 == Obj(<<>>)
             p1 == IF Truthy(select) THEN Put(p0, "select", select) ELSE p0
             p2 == IF Truthy(mailto) THEN Put(p1, "mailto", mailto) ELSE p1
         IN  MakeRequestStart(<<"/">> \o ToStr(Get(args, "entity_type")) \o <<"/">>
                                  \o ToStr(Get(args, "openalex_id")), p2, e, "json")

classifyText(args, e) ==
    IF args.t \in {"undef", "null"} THEN Throw(DestructureError("title"))
    ELSE LET title == Get(args, "title")
             abstract == Get(args, "abstract")
             mailto == Get(args, "mailto")
             p0 == Obj(<<>>)
             p1 == IF Truthy(title) THEN Put(p0, "title", title) ELSE p0
             p2 == IF Truthy(abstract) THEN Put(p1, "abstract", abstract) ELSE p1
             p3 == IF Truthy(mailto) THEN Put(p2, "mailto", mailto) ELSE p2
         IN  MakeRequestStart(<<"/text">>, p3, e, "json")

(***************************************************************************)
(* getFilterableFields: the field descriptors of each entity kind.         *)
(***************************************************************************)
Field(name, type, category, description) ==
    Obj(<<Entry("name", Str(<<name>>)), Entry("type", Str(<<type>>)),
          Entry("category", Str(<<category>>)), Entry("description", Str(<<description>>))>>)

Fields_works ==
    Arr(<<
        Field("authorships.author.id", "string", "attribute",
              "OpenAlex ID of an author."),
        Field("authorships.author.orcid", "string", "attribute",
              "ORCID of an author."),
        Field("authorships.countries", "string", "attribute",
              "Country codes associated with author affiliations."),
        Field("authorships.institutions.id", "string", "attribute",
              "OpenAlex ID of an author's institution."),
        Field("apc_paid.value_usd", "number", "attribute",
              "APC paid value in USD."),
        Field("best_oa_location.license", "string", "attribute",
              "License of the best OA location."),
        Field("biblio.volume", "string", "attribute",
              "Volume number."),
        Field("cited_by_count", "integer", "attribute",
              "Total number of times this work has been cited."),
        Field("concepts.id", "string", "attribute",
              "OpenAlex ID of an associated concept/topic."),
        Field("doi", "string", "attribute",
              "Digital Object Identifier of the work."),
        Field("has_fulltext", "boolean", "attribute",
              "Indicates if full text is available via OpenAlex."),
        Field("ids.openalex", "string", "attribute",
              "OpenAlex ID of the work."),
        Field("ids.pmid", "string", "attribute",
              "PubMed ID of the work."),
        Field("is_paratext", "boolean", "attribute",
              "Indicates if the work is paratext (e.g., cover, table of contents)."),
        Field("is_retracted", "boolean", "attribute",
              "Indicates if the work has been retracted."),
        Field("language", "string", "attribute",
              "Language code of the work."),
        Field("locations.is_oa", "boolean", "attribute",
              "Indicates if a specific location is Open Access."),
        Field("open_access.is_oa", "boolean", "attribute",
              "Overall Open Access status of the work."),
        Field("open_access.oa_status", "string", "attribute",
              "OA status (e.g., gold, green, hybrid)."),
        Field("primary_location.source.id", "string", "attribute",
              "OpenAlex ID of the primary hosting source."),
        Field("publication_year", "integer", "attribute",
              "Year of publication."),
        Field("publication_date", "date", "attribute",
              "Full publication date (YYYY-MM-DD)."),
        Field("type", "string", "attribute",
              "Type of the work (e.g., article, book)."),
        Field("abstract.search", "string", "convenience",
              "Full-text search within the work's abstract."),
        Field("authors_count", "integer", "convenience",
              "Number of authors for the work."),
        Field("cited_by", "string", "convenience",
              "OpenAlex ID of a work that this work cites (outgoing citations)."),
        Field("cites", "string", "convenience",
              "OpenAlex ID of a work that cites this work (incoming citations)."),
        Field("display_name.search", "string", "convenience",
              "Full-text search within the work's title (alias: title.search)."),
        Field("from_publication_date", "date", "convenience",
              "Filter for works published on or after this date."),
        Field("to_publication_date", "date", "convenience",
              "Filter for works published on or before this date."),
        Field("has_abstract", "boolean", "convenience",
              "Indicates if the work has an abstract."),
        Field("has_doi", "boolean", "convenience",
              "Indicates if the work has a DOI.")
    >>)

Fields_authors ==
    Arr(<<
        Field("orcid", "string", "attribute",
              "Author's ORCID iD."),
        Field("display_name.search", "string", "convenience",
              "Search by author's display name.")
    >>)

Fields_sources ==
    Arr(<<
        Field("issn", "string", "attribute",
              "Source's ISSN."),
        Field("is_oa", "boolean", "attribute",
              "If the source is fully OA.")
    >>)

Fields_institutions ==
    Arr(<<
        Field("ror", "string", "attribute",
              "Institution's ROR ID."),
        Field("country_code", "string", "attribute",
              "Institution's country code.")
    >>)

Fields_topics ==
    Arr(<<
        Field("domain.id", "string", "attribute",
              "ID of the topic's domain."),
        Field("display_name.search", "string", "convenience",
              "Search by topic's display name.")
    >>)

Fields_publishers ==
    Arr(<<
        Field("country_codes", "string", "attribute",
              "Publisher's country codes."),
        Field("display_name.search", "string", "convenience",
              "Search by publisher's display name.")
    >>)

Fields_funders ==
    Arr(<<
        Field("country_code", "string", "attribute",
              "Funder's country code."),
        Field("display_name.search", "string", "convenience",
              "Search by funder's display name.")
    >>)

getFilterableFieldsMutConcepts(args) ==
    IF args.t \in {"undef", "null"} THEN Throw(DestructureError("entity_type"))
    ELSE LET entity_type == Get(args, "entity_type")
             known == entity_type.t = "str" /\ Len(entity_type.s) = 1
             kind == IF known THEN entity_type.s[1] ELSE ""
         IN  CASE kind = "works" -> Return(TextEnvelope(JSONStringify(Fields_works)))
               [] kind = "authors" -> Return(TextEnvelope(JSONStringify(Fields_authors)))
               [] kind = "sources" -> Return(TextEnvelope(JSONStringify(Fields_sources)))
               [] kind = "institutions" ->
                      Return(TextEnvelope(JSONStringify(Fields_institutions)))
               [] kind \in {"topics", "concepts"} ->
                      Return(TextEnvelope(JSONStringify(Fields_topics)))
               [] kind = "publishers" -> Return(TextEnvelope(JSONStringify(Fields_publishers)))
               [] kind = "funders" -> Return(TextEnvelope(JSONStringify(Fields_funders)))
               [] OTHER -> Throw(NewError(<<"Unknown entity_type for get_filterable_fields: ">>
                                              \o ToStr(entity_type)))

getFilterableFields(args) ==
    IF args.t \in {"undef", "null"} THEN Throw(DestructureError("entity_type"))
    ELSE LET entity_type == Get(args, "entity_type")
             known == entity_type.t = "str" /\ Len(entity_type.s) = 1
             kind == IF known THEN entity_type.s[1] ELSE ""
         IN  CASE kind = "works" -> Return(TextEnvelope(JSONStringify(Fields_works)))
               [] kind = "authors" -> Return(TextEnvelope(JSONStringify(Fields_authors)))
               [] kind = "sources" -> Return(TextEnvelope(JSONStringify(Fields_sources)))
               [] kind = "institutions" ->
                      Return(TextEnvelope(JSONStringify(Fields_institutions)))
               [] kind = "topics" -> Return(TextEnvelope(JSONStringify(Fields_topics)))
               [] kind = "publishers" -> Return(TextEnvelope(JSONStringify(Fields_publishers)))
               [] kind = "funders" -> Return(TextEnvelope(JSONStringify(Fields_funders)))
               [] OTHER -> Throw(NewError(<<"Unknown entity_type for get_filterable_fields: ">>
                                              \o ToStr(entity_type)))

(***************************************************************************)
(* searchWorks after its await, in the summary view.                       *)
(***************************************************************************)
MaxAuthorships == 5
MaxConcepts == 3

\* list.slice(0, n) when the list is longer than n
Limit(work, key, n) ==
    LET list == Get(work, key)
    IN  IF Truthy(list) /\ list.t = "arr" /\ Len(list.items) > n
        THEN Put(work, key, Arr(SubSeq(list.items, 1, n)))
        ELSE IF Truthy(list) /\ list.t = "str" /\ Len(list.s) > n
        THEN Put(work, key, Str(SubSeq(list.s, 1, n)))
        ELSE work

SummarizeWorkMutAuthorshipsOnly(work) == Limit(work, "authorships", MaxAuthorships)

SummarizeWork(work) == Limit(Limit(work, "authorships", MaxAuthorships), "concepts", MaxConcepts)

SummaryFinishMutResultsOnly(data) ==
    LET results == Get(data, "results")
    IN  IF results.t # "arr"
        THEN Throw(NewError(<<"data.results.map is not a function">>))
        ELSE Return(TextEnvelope(JSONStringify(
                 Obj(<<Entry("results",
                             Arr([i \in 1..Len(results.items) |->
                                     SummarizeWork(results.items[i])]))>>))))

SummaryFinishMutPassThrough(data) ==
    LET results == Get(data, "results")
    IN  IF results.t # "arr"
        THEN Return(TextEnvelope(JSONStringify(data)))
        ELSE Return(TextEnvelope(JSONStringify(
                 Put(data, "results",
                     Arr([i \in 1..Len(results.items) |->
                             SummarizeWork(results.items[i])])))))

SummaryFinish(data) ==
    IF data.t \in {"undef", "null"}
    THEN Throw(NewError(<<"Cannot read properties of ">> \o ToStr(data)
                            \o <<" (reading 'results')">>))
    ELSE LET results == Get(data, "results")
         IN  IF results.t \in {"undef", "null"}
             THEN Throw(NewError(<<"Cannot read properties of ">> \o ToStr(results)
                                     \o <<" (reading 'map')">>))
             ELSE IF results.t # "arr"
             THEN Throw(NewError(<<"data.results.map is not a function">>))
             ELSE IF \E i \in 1..Len(results.items) : results.items[i].t \in {"undef", "null"}
             THEN Throw(NewError(<<"Cannot read properties of null (reading 'authorships')">>))
             ELSE LET summarizedResults ==
                          [i \in 1..Len(results.items) |-> SummarizeWork(results.items[i])]
                  IN  Return(TextEnvelope(JSONStringify(
                          Put(data, "results", Arr(summarizedResults)))))

ToolFinishMutRetry(cont, settled) ==
    IF settled.kind = "throw"
    THEN Await([method |-> "GET", url |-> OPENALEX_BASE_URL, headers |-> <<>>,
                timeout |-> RequestTimeoutMs], cont)
    ELSE IF cont = "summary" THEN SummaryFinish(settled.value)
    ELSE Return(TextEnvelope(JSONStringify(settled.value)))

\* a tool handler after its await: makeOpenAlexRequest has returned or thrown
ToolFinish(cont, settled) ==
    IF settled.kind = "throw" THEN settled
    ELSE IF cont = "summary" THEN SummaryFinish(settled.value)
    ELSE Return(TextEnvelope(JSONStringify(settled.value)))

(***************************************************************************)
(* The CallToolRequestSchema handler.                                      *)
(***************************************************************************)
ToolNames ==
    {"search_works", "search_authors", "search_sources", "search_institutions",
     "search_topics", "search_publishers", "search_funders", "get_entity",
     "autocomplete", "classify_text", "get_filterable_fields"}

DispatchMutNoDefault(name, args, e) ==
    IF name = "get_filterable_fields" THEN getFilterableFields(args)
    ELSE IF name = "get_entity" THEN getEntity(args, e)
    ELSE IF name = "classify_text" THEN classifyText(args, e)
    ELSE IF name = "search_works" THEN searchWorks(args, e)
    ELSE MakeRequestStart(<<"/", name>>, args, e, "json")

ListedToolNamesMutConcepts ==
    <<"search_works", "search_authors", "search_sources", "search_institutions",
      "search_concepts", "search_publishers", "search_funders", "get_entity",
      "autocomplete", "classify_text", "get_filterable_fields">>

\* the names of the tool descriptors returned by the ListToolsRequestSchema
\* handler, in the order of the list
ListedToolNames ==
    <<"search_works", "search_authors", "search_sources", "search_institutions",
      "search_topics", "search_publishers", "search_funders", "get_entity",
      "autocomplete", "classify_text", "get_filterable_fields">>

ListToolsResponse ==
    [tools |-> [i \in 1..Len(ListedToolNames) |-> [name |-> ListedToolNames[i]]]]

\* the switch on the tool name
Dispatch(name, args, e) ==
    CASE name = "search_works" -> searchWorks(args, e)
      [] name = "search_authors" -> searchAuthors(args, e)
      [] name = "search_sources" -> searchSources(args, e)
      [] name = "search_institutions" -> searchInstitutions(args, e)
      [] name = "search_topics" -> searchTopics(args, e)
      [] name = "search_publishers" -> searchPublishers(args, e)
      [] name = "search_funders" -> searchFunders(args, e)
      [] name = "get_entity" -> getEntity(args, e)
      [] name = "autocomplete" -> autocomplete(args, e)
      [] name = "classify_text" -> classifyText(args, e)
      [] name = "get_filterable_fields" -> getFilterableFields(args)
      [] OTHER -> Throw(NewError(<<"Unknown tool", ": ", name>>))

CatchMutNoCatch(result) ==
    IF result.kind = "throw"
    THEN [returned |-> <<>>, escaped |-> <<result.error>>]
    ELSE [returned |-> <<result.value>>, escaped |-> <<>>]

CatchMutNoFlag(result) ==
    IF result.kind = "throw"
    THEN [returned |-> <<TextEnvelope(<<"Error: ">> \o ErrorText(result.error))>>,
          escaped |-> <<>>]
    ELSE [returned |-> <<result.value>>, escaped |-> <<>>]

\* try { return await tool(args) } catch (error) { return the error envelope }:
\* what the handler returns to the transport, and what propagates out of it
Catch(result) ==
    IF result.kind = "throw"
    THEN [returned |-> <<ErrorEnvelope(result.error)>>, escaped |-> <<>>]
    ELSE [returned |-> <<result.value>>, escaped |-> <<>>]

(***************************************************************************)
(* The inputs: tool names and arguments of a call, the environment, and    *)
(* what axios.get may settle with.                                         *)
(***************************************************************************)
\* c1 draws from every invocation below; c2, the concurrent call, from a few
CallIds == {"c1", "c2"}

\* names a client may call: the dispatch table, a tool of the README that the
\* table lacks, and a name nobody registered
CalledNames == ToolNames \cup {"search_concepts", "no_such_tool"}

MailtoOpts == {<<>>, <<Entry("mailto", Str(<<>>))>>, <<Entry("mailto", Str(<<"m", "@", "x">>))>>}
BearerOpts ==
    {<<>>, <<Entry("bearer_token", Str(<<>>))>>, <<Entry("bearer_token", Str(<<"t">>))>>}
SearchOpts ==
    {<<>>, <<Entry("search", Str(<<"a", " ", "i">>)), Entry("page", Num(0))>>,
     <<Entry("api_key", Str(<<"k">>))>>}
ViewOpts ==
    {<<>>, <<Entry("view", Str(<<"summary">>))>>, <<Entry("view", Str(<<"full">>))>>}
SelectOpts == {<<>>, <<Entry("select", Str(<<"id">>))>>}
EntityOpts ==
    {<<>>,
     <<Entry("entity_type", Str(<<"works">>))>>,
     <<Entry("entity_type", Str(<<"works">>)), Entry("openalex_id", Str(<<"W", "1">>))>>,
     <<Entry("entity_type", Str(<<"works">>)), Entry("openalex_id", Str(<<"W", "?", "x">>))>>}
TitleOpts == {<<>>, <<Entry("title", Str(<<"t", " ", "x">>)), Entry("abstract", Str(<<>>))>>}
KindOpts ==
    {<<>>} \cup {<<Entry("entity_type", Str(<<k>>))>> :
                    k \in {"works", "authors", "sources", "institutions", "topics",
                           "publishers", "funders", "concepts"}}

AuthOpts == {m \o b : m \in MailtoOpts, b \in BearerOpts}

\* the argument mappings drawn for a tool; undefined is a call without arguments
Arguments(name) ==
    {Undefined} \cup
    CASE name = "search_works" ->
            {Obj(v \o s \o a) : v \in ViewOpts, s \in SelectOpts, a \in AuthOpts}
      [] name = "get_entity" ->
            {Obj(x \o s \o a) : x \in EntityOpts, s \in SelectOpts, a \in AuthOpts}
      [] name = "classify_text" -> {Obj(x \o a) : x \in TitleOpts, a \in AuthOpts}
      [] name = "get_filterable_fields" -> {Obj(x) : x \in KindOpts}
      [] name \in {"search_concepts", "no_such_tool"} -> {Obj(<<>>)}
      [] OTHER -> {Obj(s \o a) : s \in SearchOpts, a \in AuthOpts}

Invocations == {[name |-> n, args |-> a] : n \in CalledNames, a \in {Undefined}} \cup
               UNION {{[name |-> n, args |-> a] : a \in Arguments(n)} : n \in CalledNames}

BackgroundInvocations ==
    {[name |-> "no_such_tool", args |-> Undefined],
     [name |-> "search_authors",
      args |-> Obj(<<Entry("mailto", Str(<<"b", "@", "x">>)),
                     Entry("bearer_token", Str(<<"b">>))>>)]}

InvocationsOf(c) == IF c = "c1" THEN Invocations ELSE BackgroundInvocations

EnvValues == {Undefined, Str(<<>>), Str(<<"e">>)}
Environments ==
    {[OPENALEX_DEFAULT_EMAIL |-> m, OPENALEX_BEARER_TOKEN |-> b] :
        m \in EnvValues, b \in EnvValues}

ServerEnvironments ==
    {x \in Environments : x.OPENALEX_DEFAULT_EMAIL # Str(<<>>)
                              /\ x.OPENALEX_BEARER_TOKEN # Str(<<>>)}

\* payloads of the upstream API
BigWork ==
    Obj(<<Entry("id", Str(<<"W1">>)),
          Entry("authorships", Arr(<<Str(<<"a1">>), Str(<<"a2">>), Str(<<"a3">>),
                                     Str(<<"a4">>), Str(<<"a5">>), Str(<<"a6">>)>>)),
          Entry("concepts", Arr(<<Str(<<"k1">>), Str(<<"k2">>), Str(<<"k3">>),
                                  Str(<<"k4">>)>>)),
          Entry("publication_year", Num(2020))>>)
SmallWork ==
    Obj(<<Entry("id", Str(<<"W2">>)),
          Entry("authorships", Arr(<<Str(<<"a1">>)>>)),
          Entry("concepts", Arr(<<>>))>>)
ListPayload ==
    Obj(<<Entry("meta", Obj(<<Entry("count", Num(5))>>)),
          Entry("results", Arr(<<BigWork, SmallWork>>))>>)
GroupedPayload ==
    Obj(<<Entry("meta", Obj(<<Entry("count", Num(2))>>)),
          Entry("group_by", Str(<<"type">>)),
          Entry("groups", Arr(<<>>))>>)
EntityPayload == Obj(<<Entry("id", Str(<<"W1">>)), Entry("display_name", Str(<<"X">>))>>)
\* a body that is a JSON string, with characters that JSON escapes
TextPayload == Str(<<"a", "\"", "\\">>)
Payloads == {ListPayload, GroupedPayload, EntityPayload, TextPayload}

HttpErrors ==
    {AxiosError(<<"Request failed with status code 404">>,
                <<[status |-> 404, statusText |-> <<"Not Found">>]>>),
     AxiosError(<<"Request failed with status code 429">>,
                <<[status |-> 429, statusText |-> <<>>]>>)}
\* a failure without a response: axios rejects with an AxiosError here too
NetworkErrors == {AxiosError(<<"timeout of 30000ms exceeded">>, <<>>)}
OtherErrors == {NewError(<<"unexpected failure">>)}

Resolve(data) == [kind |-> "resolve", data |-> data]
Reject(error) == [kind |-> "reject", error |-> error]

Outcomes ==
    {Resolve(d) : d \in Payloads} \cup
    {Reject(x) : x \in HttpErrors \cup NetworkErrors \cup OtherErrors}

(***************************************************************************)
(* The server: tool calls in flight.                                       *)
(***************************************************************************)
\* requests: the HTTP requests issued; outcome: what axios.get settled with;
\* thrown: the failure raised inside the handler's try block; returned: the
\* envelopes returned to the transport; escaped: errors propagated out of the handler
IdleCall ==
    [pc |-> "idle", method |-> "", name |-> "", args |-> Undefined, requests |-> <<>>,
     cont |-> "", outcome |-> <<>>, thrown |-> <<>>, returned |-> <<>>, escaped |-> <<>>]

Thrown(result) == IF result.kind = "throw" THEN <<result.error>> ELSE <<>>

NoQs == [pc |-> "off", params |-> Obj(<<>>), out |-> <<>>]
NoRq == [pc |-> "off", endpoint |-> <<>>, params |-> Undefined, requests |-> <<>>,
         outcome |-> <<>>, result |-> <<>>]
NoSw == [pc |-> "off", args |-> Undefined, requests |-> <<>>, cont |-> "",
         outcome |-> <<>>, result |-> <<>>]
NoLog == [on |-> FALSE, seen |-> {}]
NoCaller == [name |-> "", args |-> Undefined, given |-> Undefined,
             used |-> [c \in CallIds |-> <<>>]]

\* how a served request ended: a list response, a success or an error envelope
Ending(call) ==
    IF call.method = "tools/list" THEN "list"
    ELSE IF call.thrown # <<>> THEN "error"
    ELSE "success"

Init ==
    /\ env \in ServerEnvironments
    /\ calls = [c \in CallIds |-> IdleCall]
    /\ qs = NoQs
    /\ rq = NoRq
    /\ sw = NoSw
    /\ log = NoLog
    /\ startup = env
    /\ caller = NoCaller

CallToolMutShared(c) ==
    /\ calls[c].pc = "idle"
    /\ \E inv \in InvocationsOf(c) :
          LET other == CHOOSE d \in CallIds : d # c
              shared == IF calls[other].pc = "awaiting" THEN calls[other].args ELSE inv.args
              r == Dispatch(inv.name, shared, env)
          IN  calls' = [calls EXCEPT ![c] =
                  IF r.kind = "await"
                  THEN [IdleCall EXCEPT !.pc = "awaiting", !.method = "tools/call",
                                        !.name = inv.name, !.args = inv.args,
                                        !.requests = <<r.request>>, !.cont = r.cont]
                  ELSE [IdleCall EXCEPT !.pc = "done", !.method = "tools/call",
                                        !.name = inv.name, !.args = inv.args,
                                        !.thrown = Thrown(r),
                                        !.returned = Catch(r).returned,
                                        !.escaped = Catch(r).escaped]]
    /\ UNCHANGED <<env, qs, rq, sw, log, startup, caller>>

CallToolMutBreaker(c) ==
    /\ calls[c].pc = "idle"
    /\ \E inv \in InvocationsOf(c) :
          LET r == IF "error" \in log.seen
                   THEN Throw(NewError(<<"Server unavailable">>))
                   ELSE Dispatch(inv.name, inv.args, env)
          IN  calls' = [calls EXCEPT ![c] =
                  IF r.kind = "await"
                  THEN [IdleCall EXCEPT !.pc = "awaiting", !.method = "tools/call",
                                        !.name = inv.name, !.args = inv.args,
                                        !.requests = <<r.request>>, !.cont = r.cont]
                  ELSE [IdleCall EXCEPT !.pc = "done", !.method = "tools/call",
                                        !.name = inv.name, !.args = inv.args,
                                        !.thrown = Thrown(r),
                                        !.returned = Catch(r).returned,
                                        !.escaped = Catch(r).escaped]]
    /\ UNCHANGED <<env, qs, rq, sw, log, startup, caller>>

\* a tools/call request arrives: the handler runs up to the tool's await, or,
\* when nothing is awaited, to its end
CallTool(c) ==
    /\ calls[c].pc = "idle"
    /\ \E inv \in InvocationsOf(c) :
          LET r == Dispatch(inv.name, inv.args, env)
          IN  calls' = [calls EXCEPT ![c] =
                  IF r.kind = "await"
                  THEN [IdleCall EXCEPT !.pc = "awaiting", !.method = "tools/call",
                                        !.name = inv.name, !.args = inv.args,
                                        !.requests = <<r.request>>, !.cont = r.cont]
                  ELSE [IdleCall EXCEPT !.pc = "done", !.method = "tools/call",
                                        !.name = inv.name, !.args = inv.args,
                                        !.thrown = Thrown(r),
                                        !.returned = Catch(r).returned,
                                        !.escaped = Catch(r).escaped]]
    /\ UNCHANGED <<env, qs, rq, sw, log, startup, caller>>

RespondMutAwaitsOther(c) ==
    /\ calls[c].pc = "awaiting"
    /\ \A d \in CallIds \ {c} : calls[d].pc # "awaiting"
    /\ \E outcome \in Outcomes :
          LET r == ToolFinish(calls[c].cont, MakeRequestSettle(outcome))
          IN  calls' = [calls EXCEPT ![c] =
                  [@ EXCEPT !.pc = "done", !.outcome = <<outcome>>,
                            !.thrown = Thrown(r),
                            !.returned = Catch(r).returned,
                            !.escaped = Catch(r).escaped]]
    /\ UNCHANGED <<env, qs, rq, sw, log, startup, caller>>

\* axios.get settles: makeOpenAlexRequest, the tool and the handler run on, to
\* the end or to another await
Respond(c) ==
    /\ calls[c].pc = "awaiting"
    /\ \E outcome \in Outcomes :
          LET r == ToolFinish(calls[c].cont, MakeRequestSettle(outcome))
          IN  calls' = [calls EXCEPT ![c] =
                  IF r.kind = "await"
                  THEN [@ EXCEPT !.requests = Append(@, r.request), !.cont = r.cont]
                  ELSE [@ EXCEPT !.pc = "done", !.outcome = <<outcome>>,
                                 !.thrown = Thrown(r),
                                 !.returned = Catch(r).returned,
                                 !.escaped = Catch(r).escaped]]
    /\ UNCHANGED <<env, qs, rq, sw, log, startup, caller>>

\* a tools/list request: the handler returns the catalog without awaiting
ListTools(c) ==
    /\ calls[c].pc = "idle"
    /\ calls' = [calls EXCEPT ![c] =
           [IdleCall EXCEPT !.pc = "done", !.method = "tools/list",
                            !.returned = <<ListToolsResponse>>]]
    /\ UNCHANGED <<env, qs, rq, sw, log, startup, caller>>

\* the transport has sent the response; the request is over
Release(c) ==
    /\ calls[c].pc = "done"
    /\ calls' = [calls EXCEPT ![c] = IdleCall]
    /\ log' = IF log.on THEN [log EXCEPT !.seen = @ \cup {Ending(calls[c])}] ELSE log
    /\ UNCHANGED <<env, qs, rq, sw, startup, caller>>

Next == \E c \in CallIds : CallTool(c) \/ Respond(c) \/ ListTools(c) \/ Release(c)

Spec == Init /\ [][Next]_vars

\* every request handed to axios settles: with a response, with a failure, or
\* with the failure of the timeout that the request carries
SpecLive == Init /\ [][Next]_vars /\ \A c \in CallIds : WF_vars(Respond(c))

(***************************************************************************)
(* The server serving its requests one after the other, with a record of   *)
(* how the earlier ones ended.                                             *)
(***************************************************************************)
InitSeq ==
    /\ env \in ServerEnvironments
    /\ calls = [c \in CallIds |-> IdleCall]
    /\ qs = NoQs
    /\ rq = NoRq
    /\ sw = NoSw
    /\ log = [on |-> TRUE, seen |-> {}]
    /\ startup = env
    /\ caller = NoCaller

NextSeq == CallTool("c1") \/ Respond("c1") \/ ListTools("c1") \/ Release("c1")

SpecSeq == InitSeq /\ [][NextSeq]_vars

(***************************************************************************)
(* buildQueryString on its own.                                            *)
(***************************************************************************)
Alphabet == {"a", " ", "&", "=", "?"}

RECURSIVE Strings(_)
\* the strings of at most n characters
Strings(n) ==
    IF n = 0 THEN {<<>>}
    ELSE LET shorter == Strings(n - 1)
         IN  shorter \cup {Append(x, ch) : x \in shorter, ch \in Alphabet}

QsKeys == {"search", "cursor", "="}
QsValues ==
    {Undefined, Null, Num(0), Num(25), Bool(FALSE), Bool(TRUE)}
        \cup {Str(x) : x \in Strings(MaxLen)}

RECURSIVE EntryLists(_)
\* the entry lists of at most n entries with pairwise distinct keys
EntryLists(n) ==
    IF n = 0 THEN {<<>>}
    ELSE LET shorter == EntryLists(n - 1)
         IN  shorter \cup
             {Append(x, Entry(k, v)) : x \in shorter, k \in QsKeys, v \in QsValues}

QsParams == {Obj(x) : x \in {y \in EntryLists(MaxEntries) :
                \A i, j \in 1..Len(y) : y[i].k = y[j].k => i = j}}

InitQS ==
    /\ env = [OPENALEX_DEFAULT_EMAIL |-> Undefined, OPENALEX_BEARER_TOKEN |-> Undefined]
    /\ calls = [c \in CallIds |-> IdleCall]
    /\ rq = NoRq
    /\ sw = NoSw
    /\ log = NoLog
    /\ startup = env
    /\ caller = NoCaller
    /\ \E p \in QsParams : qs = [pc |-> "ready", params |-> p, out |-> <<>>]

QsApply ==
    /\ qs.pc = "ready"
    /\ qs' = [qs EXCEPT !.pc = "done", !.out = <<buildQueryString(qs.params)>>]
    /\ UNCHANGED <<env, calls, rq, sw, log, startup, caller>>

NextQS == QsApply

SpecQS == InitQS /\ [][NextQS]_vars

(***************************************************************************)
(* makeOpenAlexRequest on its own.                                         *)
(***************************************************************************)
RqAlphabet == {"a", "?"}

RECURSIVE RqStrings(_)
RqStrings(n) ==
    IF n = 0 THEN {<<>>}
    ELSE LET shorter == RqStrings(n - 1)
         IN  shorter \cup {Append(x, ch) : x \in shorter, ch \in RqAlphabet}

RqValues == {Null, Num(0), Num(7)} \cup {Str(x) : x \in RqStrings(MaxLen)}
RqOpt(key) == {<<>>} \cup {<<Entry(key, v)>> : v \in RqValues}
RqParams ==
    {Undefined} \cup
    {Obj(m \o b \o x) : m \in RqOpt("mailto"), b \in RqOpt("bearer_token"),
                        x \in {<<>>, <<Entry("cursor", Null)>>,
                               <<Entry("search", Str(<<"a", "?">>))>>}}
RqEndpoints == {<<"/works">>, <<"/", "works", "/", "W", "?", "x">>}

InitReq ==
    /\ env \in Environments
    /\ calls = [c \in CallIds |-> IdleCall]
    /\ qs = NoQs
    /\ sw = NoSw
    /\ log = NoLog
    /\ startup = env
    /\ caller = NoCaller
    /\ \E ep \in RqEndpoints, p \in RqParams :
          rq = [NoRq EXCEPT !.pc = "ready", !.endpoint = ep, !.params = p]

\* the call up to its await
RqIssue ==
    /\ rq.pc = "ready"
    /\ LET r == MakeRequestStart(rq.endpoint, rq.params, env, "json")
       IN  rq' = IF r.kind = "await"
                 THEN [rq EXCEPT !.pc = "awaiting", !.requests = <<r.request>>]
                 ELSE [rq EXCEPT !.pc = "done", !.result = <<r>>]
    /\ UNCHANGED <<env, calls, qs, sw, log, startup, caller>>

\* axios.get settles and the call returns or throws
RqSettle ==
    /\ rq.pc = "awaiting"
    /\ \E outcome \in Outcomes :
          rq' = [rq EXCEPT !.pc = "done", !.outcome = <<outcome>>,
                           !.result = <<MakeRequestSettle(outcome)>>]
    /\ UNCHANGED <<env, calls, qs, sw, log, startup, caller>>

NextReq == RqIssue \/ RqSettle

SpecReq == InitReq /\ [][NextReq]_vars

(***************************************************************************)
(* makeOpenAlexRequest in a process whose environment is changed after the *)
(* server has started.                                                     *)
(***************************************************************************)
InitEnv ==
    /\ env \in ServerEnvironments
    /\ calls = [c \in CallIds |-> IdleCall]
    /\ qs = NoQs
    /\ sw = NoSw
    /\ log = NoLog
    /\ startup = env
    /\ caller = NoCaller
    /\ \E p \in RqParams : rq = [NoRq EXCEPT !.pc = "ready", !.endpoint = <<"/works">>,
                                              !.params = p]

\* something in the process assigns process.env.OPENALEX_DEFAULT_EMAIL or
\* process.env.OPENALEX_BEARER_TOKEN, or deletes it, before the call
ChangeEnv ==
    /\ rq.pc = "ready"
    /\ env = startup
    /\ \E x \in ServerEnvironments : x # env /\ env' = x
    /\ UNCHANGED <<calls, qs, rq, sw, log, startup, caller>>

NextEnv == ChangeEnv \/ RqIssue \/ RqSettle

SpecEnv == InitEnv /\ [][NextEnv]_vars

(***************************************************************************)
(* Two invocations with one argument mapping.  The client keeps the        *)
(* mapping it passes; the handler receives that object itself, so a        *)
(* property a tool assigns on it would be seen by the client and by the    *)
(* second invocation.  The environment may change between the two.         *)
(***************************************************************************)
ArgumentsAfterMutInPlace(name, args) ==
    IF name = "search_works" /\ Get(args, "view") = Str(<<"summary">>)
    THEN Put(args, "select", Str(SummarySelect))
    ELSE args

\* the mapping passed to a tool, after the tool's synchronous part: searchWorks
\* assigns select on searchArgs, the rest copy, and no tool assigns on args
ArgumentsAfter(name, args) ==
    IF name = "search_works" /\ args.t = "obj"
    THEN LET searchArgs == Without(args, "view")
             assigned == IF Get(args, "view") = Str(<<"summary">>)
                         THEN Put(searchArgs, "select", Str(SummarySelect))
                         ELSE searchArgs
         IN  args
    ELSE args

TwiceInvocations ==
    {[name |-> "search_works",
      args |-> Obj(<<Entry("view", Str(<<"summary">>)), Entry("select", Str(<<"id">>)),
                     Entry("bearer_token", Str(<<"t">>))>>)],
     [name |-> "search_works", args |-> Obj(<<Entry("view", Str(<<"summary">>))>>)],
     [name |-> "search_works", args |-> Obj(<<Entry("view", Str(<<"full">>))>>)],
     [name |-> "search_works", args |-> Undefined],
     [name |-> "search_authors",
      args |-> Obj(<<Entry("search", Str(<<"a", " ", "i">>)),
                     Entry("mailto", Str(<<"m", "@", "x">>))>>)],
     [name |-> "get_entity",
      args |-> Obj(<<Entry("entity_type", Str(<<"works">>)),
                     Entry("openalex_id", Str(<<"W", "1">>))>>)],
     [name |-> "get_filterable_fields", args |-> Obj(<<Entry("entity_type", Str(<<"works">>))>>)],
     [name |-> "no_such_tool", args |-> Obj(<<>>)]}

InitTwice ==
    /\ env \in ServerEnvironments
    /\ calls = [c \in CallIds |-> IdleCall]
    /\ qs = NoQs
    /\ rq = NoRq
    /\ sw = NoSw
    /\ log = NoLog
    /\ startup = env
    /\ \E inv \in TwiceInvocations :
          caller = [NoCaller EXCEPT !.name = inv.name, !.args = inv.args, !.given = inv.args]

\* the handler runs on the client's mapping, with process.env as it is now
CallTwice(c) ==
    /\ calls[c].pc = "idle"
    /\ LET r == Dispatch(caller.name, caller.args, env)
       IN  calls' = [calls EXCEPT ![c] =
               IF r.kind = "await"
               THEN [IdleCall EXCEPT !.pc = "awaiting", !.method = "tools/call",
                                     !.name = caller.name, !.args = caller.args,
                                     !.requests = <<r.request>>, !.cont = r.cont]
               ELSE [IdleCall EXCEPT !.pc = "done", !.method = "tools/call",
                                     !.name = caller.name, !.args = caller.args,
                                     !.thrown = Thrown(r),
                                     !.returned = Catch(r).returned,
                                     !.escaped = Catch(r).escaped]]
    /\ caller' = [caller EXCEPT !.args = ArgumentsAfter(caller.name, caller.args),
                                !.used[c] = <<env>>]
    /\ UNCHANGED <<env, qs, rq, sw, log, startup>>

\* a variable of the process environment is set to another value
SetEnv ==
    /\ caller.name # ""
    /\ env = startup
    /\ \E x \in ServerEnvironments : x # env /\ env' = x
    /\ UNCHANGED <<calls, qs, rq, sw, log, startup, caller>>

NextTwice == SetEnv \/ \E c \in CallIds : CallTwice(c) \/ Respond(c)

SpecTwice == InitTwice /\ [][NextTwice]_vars

(***************************************************************************)
(* searchWorks on its own, against upstream lists of works whose           *)
(* authorships and concepts lists are absent, within the limits, and       *)
(* longer.                                                                 *)
(***************************************************************************)
\* most works in an upstream result list
MaxResults == 2

SwItems(prefix, n) == [i \in 1..n |-> Obj(<<Entry("id", Str(<<prefix, Digit(i)>>))>>)]
SwListOpts(key, prefix, counts) ==
    {<<>>} \cup {<<Entry(key, Arr(SwItems(prefix, n)))>> : n \in counts}

SwWorks ==
    {Obj(<<Entry("id", Str(<<"W">>))>> \o a \o <<Entry("cited_by_count", Num(12))>> \o k) :
        a \in SwListOpts("authorships", "A", {MaxAuthorships, MaxAuthorships + 1, 8}),
        k \in SwListOpts("concepts", "C", {MaxConcepts, 5})}

RECURSIVE SwResults(_)
SwResults(n) ==
    IF n = 0 THEN {<<>>}
    ELSE LET shorter == SwResults(n - 1)
         IN  shorter \cup {Append(x, w) : x \in shorter, w \in SwWorks}

SwPayloads ==
    {Obj(<<Entry("meta", Obj(<<Entry("count", Num(40)), Entry("next_cursor", Str(<<"c", "=">>))>>)),
           Entry("results", Arr(r)),
           Entry("group_by", Arr(<<>>))>>) : r \in SwResults(MaxResults)}
        \cup {GroupedPayload}

SwOutcomes ==
    {Resolve(d) : d \in SwPayloads} \cup {Reject(x) : x \in HttpErrors \cup NetworkErrors}

SwViewOpts ==
    {<<>>, <<Entry("view", Str(<<"summary">>))>>, <<Entry("view", Str(<<"full">>))>>,
     <<Entry("view", Str(<<"Summary">>))>>, <<Entry("view", Null)>>}
SwSelectOpts == {<<>>, <<Entry("select", Str(<<"id", ",", "doi">>))>>}
SwOtherOpts ==
    {<<>>, <<Entry("search", Str(<<"a", " ", "i">>)), Entry("per_page", Num(1))>>}

\* view comes first or last among the arguments
SwArgs ==
    {Undefined}
        \cup {Obj(v \o s \o x) : v \in SwViewOpts, s \in SwSelectOpts, x \in SwOtherOpts}
        \cup {Obj(x \o s \o v) : v \in SwViewOpts, s \in SwSelectOpts, x \in SwOtherOpts}

InitWorks ==
    /\ env = [OPENALEX_DEFAULT_EMAIL |-> Undefined, OPENALEX_BEARER_TOKEN |-> Undefined]
    /\ calls = [c \in CallIds |-> IdleCall]
    /\ qs = NoQs
    /\ rq = NoRq
    /\ log = NoLog
    /\ startup = env
    /\ caller = NoCaller
    /\ \E a \in SwArgs : sw = [NoSw EXCEPT !.pc = "ready", !.args = a]

\* searchWorks up to its await
SwIssue ==
    /\ sw.pc = "ready"
    /\ LET r == searchWorks(sw.args, env)
       IN  sw' = IF r.kind = "await"
                 THEN [sw EXCEPT !.pc = "awaiting", !.requests = <<r.request>>,
                                 !.cont = r.cont]
                 ELSE [sw EXCEPT !.pc = "done", !.result = <<r>>]
    /\ UNCHANGED <<env, calls, qs, rq, log, startup, caller>>

\* axios.get settles and searchWorks returns its envelope or throws
SwSettle ==
    /\ sw.pc = "awaiting"
    /\ \E outcome \in SwOutcomes :
          sw' = [sw EXCEPT !.pc = "done", !.outcome = <<outcome>>,
                           !.result = <<ToolFinish(sw.cont, MakeRequestSettle(outcome))>>]
    /\ UNCHANGED <<env, calls, qs, rq, log, startup, caller>>

NextWorks == SwIssue \/ SwSettle

SpecWorks == InitWorks /\ [][NextWorks]_vars

(***************************************************************************)
(* Reading a query string back: the entries of an encoded string.          *)
(***************************************************************************)
DecodeTok(c) ==
    CASE c = "+" -> " "
      [] c = "%26" -> "&"
      [] c = "%3D" -> "="
      [] c = "%3F" -> "?"
      [] c = "%2F" -> "/"
      [] c = "%2C" -> ","
      [] c = "%3A" -> ":"
      [] c = "%40" -> "@"
      [] c = "%2B" -> "+"
      [] c = "%25" -> "%"
      [] OTHER -> c

Decode(s) == [i \in 1..Len(s) |-> DecodeTok(s[i])]

Occurs(c, s) == \E i \in 1..Len(s) : s[i] = c
First(c, s) == CHOOSE i \in 1..Len(s) : s[i] = c /\ \A j \in 1..(i - 1) : s[j] # c
Count(c, s) == Cardinality({i \in 1..Len(s) : s[i] = c})

RECURSIVE SplitOn(_, _)
SplitOn(s, c) ==
    IF ~Occurs(c, s) THEN <<s>>
    ELSE <<SubSeq(s, 1, First(c, s) - 1)>> \o SplitOn(SubSeq(s, First(c, s) + 1, Len(s)), c)

\* the decoded [k, v] pairs of a query string, in order
ParseQuery(q) ==
    IF q = <<>> THEN <<>>
    ELSE LET parts == SplitOn(q, "&")
         IN  [i \in 1..Len(parts) |->
                 IF Occurs("=", parts[i])
                 THEN [k |-> Decode(SubSeq(parts[i], 1, First("=", parts[i]) - 1)),
                       v |-> Decode(SubSeq(parts[i], First("=", parts[i]) + 1,
                                           Len(parts[i])))]
                 ELSE [k |-> Decode(parts[i]), v |-> <<>>]]

Present(v) == v.t # "undef" /\ v.t # "null"

(***************************************************************************)
(* C7: buildQueryString returns exactly one key=value entry for each key   *)
(* whose value is neither undefined nor null, the value stringified (0,    *)
(* false and the empty string are kept), and no entry for a key whose      *)
(* value is undefined or null.                                             *)
(***************************************************************************)
C7_OneEntryPerPresentKey ==
    qs.pc = "done" =>
        LET parsed == ParseQuery(qs.out[1])
            ent == qs.params.ent
        IN  /\ \A i \in 1..Len(ent) :
                  LET hits == {j \in 1..Len(parsed) : parsed[j].k = <<ent[i].k>>}
                  IN  IF Present(ent[i].v)
                      THEN /\ Cardinality(hits) = 1
                           /\ \A j \in hits : parsed[j].v = ToStr(ent[i].v)
                      ELSE hits = {}
            /\ \A j \in 1..Len(parsed) : \E i \in 1..Len(ent) : parsed[j].k = <<ent[i].k>>

\* a mapping with 0 and null: the 0 is kept as search=0, the null key is left out
C7_Witness ==
    /\ qs.pc = "done"
    /\ qs.params = Obj(<<Entry("search", Num(0)), Entry("cursor", Null)>>)
    /\ qs.out = <<(<<"search", "=", "0">>)>>

(***************************************************************************)
(* C8: the URL is base + endpoint, followed by the ? separator and the     *)
(* query string exactly when the query string is not empty, that is when   *)
(* some parameter is neither undefined nor null; the query string itself   *)
(* holds no ?, so the URL holds no ? beyond those of the endpoint path     *)
(* when the mapping is empty or all its values are null or undefined.      *)
(***************************************************************************)
C8_QuestionMarkIffQuery ==
    rq.requests # <<>> =>
        LET url == rq.requests[1].url
            prefix == OPENALEX_BASE_URL \o rq.endpoint
            rest == SubSeq(url, Len(prefix) + 1, Len(url))
            p == IF rq.params.t = "undef" THEN <<>> ELSE rq.params.ent
            hasValue == \E i \in 1..Len(p) : Present(p[i].v)
        IN  /\ Len(url) >= Len(prefix)
            /\ SubSeq(url, 1, Len(prefix)) = prefix
            /\ hasValue <=> rest # <<>>
            /\ hasValue => Len(rest) >= 2 /\ rest[1] = "?"
            /\ Count("?", url) = Count("?", rq.endpoint) + (IF hasValue THEN 1 ELSE 0)

\* a mapping whose only value is null: the URL is base + endpoint, without ?
C8_Witness ==
    /\ rq.requests # <<>>
    /\ rq.endpoint = <<"/works">>
    /\ rq.params = Obj(<<Entry("cursor", Null)>>)
    /\ rq.requests[1].url = <<"https://api.openalex.org", "/works">>

(***************************************************************************)
(* C4: the Authorization header of makeOpenAlexRequest: "Bearer " and the  *)
(* bearer_token parameter when the parameters carry one, also when the     *)
(* environment defines OPENALEX_BEARER_TOKEN; otherwise "Bearer " and the  *)
(* environment's token when the environment defines one; otherwise there   *)
(* is no Authorization header.  A token is carried or defined when it is   *)
(* truthy: the empty string counts as no token, in both places.            *)
(***************************************************************************)
C4_AuthorizationPrecedence ==
    rq.requests # <<>> =>
        LET headers == rq.requests[1].headers
            param == Get(rq.params, "bearer_token")
            fromEnv == env.OPENALEX_BEARER_TOKEN
        IN  IF Truthy(param)
            THEN /\ "Authorization" \in DOMAIN headers
                 /\ headers["Authorization"] = <<"Bearer ">> \o ToStr(param)
            ELSE IF Truthy(fromEnv)
            THEN /\ "Authorization" \in DOMAIN headers
                 /\ headers["Authorization"] = <<"Bearer ">> \o fromEnv.s
            ELSE "Authorization" \notin DOMAIN headers

\* both a parameter token and another environment token: the parameter's is sent
C4_Witness ==
    /\ rq.requests # <<>>
    /\ Get(rq.params, "bearer_token") = Str(<<"a">>)
    /\ env.OPENALEX_BEARER_TOKEN = Str(<<"e">>)
    /\ rq.requests[1].headers["Authorization"] = <<"Bearer ", "a">>

(***************************************************************************)
(* C6: the User-Agent header is the product identifier followed by         *)
(* " mailto:" and one email: the mailto parameter when present and         *)
(* non-empty, whatever the environment says; otherwise                     *)
(* OPENALEX_DEFAULT_EMAIL when the environment gives one; otherwise        *)
(* mcp-server@example.com.                                                 *)
(***************************************************************************)
C6_UserAgentEmail ==
    rq.requests # <<>> =>
        LET headers == rq.requests[1].headers
            param == Get(rq.params, "mailto")
            fromEnv == env.OPENALEX_DEFAULT_EMAIL
            email == IF Truthy(param) THEN ToStr(param)
                     ELSE IF Truthy(fromEnv) THEN fromEnv.s
                     ELSE <<"mcp-server@example.com">>
        IN  /\ "User-Agent" \in DOMAIN headers
            /\ headers["User-Agent"] =
                   <<"OpenAlex-MCP-Server/1.0.0 (https://github.com/openalex-mcp-server)",
                     " mailto:">> \o email

\* a mailto parameter and an environment default: the parameter's email is sent
C6_Witness ==
    /\ rq.requests # <<>>
    /\ Get(rq.params, "mailto") = Str(<<"a">>)
    /\ env.OPENALEX_DEFAULT_EMAIL = Str(<<"e">>)
    /\ rq.requests[1].headers["User-Agent"] =
           <<"OpenAlex-MCP-Server/1.0.0 (https://github.com/openalex-mcp-server)",
             " mailto:", "a">>

(***************************************************************************)
(* Reading envelopes.                                                      *)
(***************************************************************************)
IsEnvelope(e) ==
    /\ DOMAIN e \subseteq {"content", "isError"}
    /\ "content" \in DOMAIN e
    /\ Len(e.content) >= 1
    /\ \A i \in 1..Len(e.content) : e.content[i].type = "text"

IsErrorEnvelope(e) == "isError" \in DOMAIN e /\ e.isError = TRUE

\* sub occurs in s as a run of consecutive tokens
Contains(s, sub) ==
    \E i \in 0..(Len(s) - Len(sub)) : SubSeq(s, i + 1, i + Len(sub)) = sub

Settled(c) == calls[c].pc = "done" /\ calls[c].outcome # <<>>

(***************************************************************************)
(* C1: every tool call, whatever the tool name, the arguments (absent      *)
(* ones too) and the upstream outcome, ends with the handler returning     *)
(* exactly one result envelope; no exception propagates out of the         *)
(* handler.                                                                *)
(***************************************************************************)
C1_ExactlyOneEnvelope ==
    \A c \in CallIds :
        /\ calls[c].escaped = <<>>
        /\ (calls[c].pc = "done" /\ calls[c].method = "tools/call") =>
               Len(calls[c].returned) = 1 /\ IsEnvelope(calls[c].returned[1])
        /\ calls[c].pc # "done" => calls[c].returned = <<>>

\* a call whose request failed without a response has returned its one envelope
C1_Witness ==
    \E c \in CallIds :
        /\ Settled(c)
        /\ calls[c].outcome[1].kind = "reject"
        /\ calls[c].outcome[1].error.response = <<>>
        /\ calls[c].thrown # <<>>
        /\ Len(calls[c].returned) = 1

(***************************************************************************)
(* C2: the envelope has isError = true exactly when a failure was raised   *)
(* in the handler or below it.  On failure it is one text block, "Error: " *)
(* followed by the failure's message, with isError true; on success it is  *)
(* one text block, the pretty-printed JSON of the payload, without         *)
(* isError.                                                                *)
(***************************************************************************)
C2_IsErrorIffFailure ==
    \A c \in CallIds :
        (calls[c].pc = "done" /\ calls[c].method = "tools/call"
            /\ calls[c].returned # <<>>) =>
            LET e == calls[c].returned[1]
            IN  IF calls[c].thrown # <<>>
                THEN e = [content |-> <<[type |-> "text",
                                         text |-> <<"Error: ">> \o calls[c].thrown[1].message]>>,
                          isError |-> TRUE]
                ELSE /\ DOMAIN e = {"content"}
                     /\ Len(e.content) = 1
                     /\ e.content[1].type = "text"
                     /\ e.content[1].text # <<>>
                     /\ e.content[1].text[1] # "Error: "
                     /\ calls[c].cont = "json" =>
                            e.content[1].text = JSONStringify(calls[c].outcome[1].data)

\* a successful lookup: the payload, pretty-printed with two spaces, and no isError
C2_Witness ==
    \E c \in CallIds :
        /\ Settled(c)
        /\ calls[c].name = "get_entity"
        /\ calls[c].outcome[1] = Resolve(EntityPayload)
        /\ calls[c].returned =
               <<[content |-> <<[type |-> "text",
                                 text |-> <<"{", "\n", "  ", "\"", "id", "\"", ": ",
                                            "\"", "W1", "\"", ",", "\n", "  ", "\"",
                                            "display_name", "\"", ": ", "\"", "X", "\"",
                                            "\n", "}">>]>>]>>

(***************************************************************************)
(* C3: a call of a name that is not in the dispatch table returns an error *)
(* envelope whose text contains "Unknown tool" and the name, issues no     *)
(* HTTP request, and leaves the server serving: nothing propagates out of  *)
(* the handler, the call can be closed and an idle call id accepts a call. *)
(***************************************************************************)
C3_UnknownTool ==
    \A c \in CallIds :
        (calls[c].method = "tools/call" /\ calls[c].name \notin ToolNames) =>
            /\ calls[c].pc = "done"
            /\ calls[c].requests = <<>>
            /\ calls[c].escaped = <<>>
            /\ Len(calls[c].returned) = 1
            /\ IsErrorEnvelope(calls[c].returned[1])
            /\ Contains(calls[c].returned[1].content[1].text, <<"Unknown tool">>)
            /\ Contains(calls[c].returned[1].content[1].text, <<calls[c].name>>)
            /\ ENABLED Release(c)
            /\ \A d \in CallIds : calls[d].pc = "idle" => ENABLED CallTool(d)

\* search_concepts, a tool of the README that the dispatch table lacks, was called
C3_Witness ==
    \E c \in CallIds :
        /\ calls[c].pc = "done"
        /\ calls[c].name = "search_concepts"
        /\ calls[c].returned =
               <<[content |-> <<[type |-> "text",
                                 text |-> <<"Error: ", "Unknown tool", ": ",
                                            "search_concepts">>]>>,
                  isError |-> TRUE]>>

(***************************************************************************)
(* C5 as amended: the tools that forward the caller's arguments (the       *)
(* search tools and autocomplete) send a non-empty bearer_token argument   *)
(* in the Authorization header and a non-empty mailto argument in the      *)
(* User-Agent header, whatever the environment defines.  get_entity and    *)
(* classify_text forward mailto only: there a non-empty mailto argument    *)
(* wins as well, but a bearer_token argument is ignored and the            *)
(* Authorization header carries the environment's token, or is absent when *)
(* the environment defines none.                                           *)
(***************************************************************************)
MailtoOnlyTools == {"get_entity", "classify_text"}

HttpFailure(c) ==
    /\ Settled(c)
    /\ calls[c].outcome[1].kind = "reject"
    /\ calls[c].outcome[1].error.isAxiosError
    /\ calls[c].outcome[1].error.response # <<>>

C9_HttpErrorText ==
    \A c \in CallIds :
        HttpFailure(c) =>
            LET error == calls[c].outcome[1].error
                response == error.response[1]
            IN  calls[c].returned =
                    <<[content |-> <<[type |-> "text",
                                      text |-> <<"Error: ", "OpenAlex API error: ">>
                                          \o NumToStr(response.status) \o <<" - ">>
                                          \o (IF response.statusText # <<>>
                                              THEN response.statusText
                                              ELSE error.message)]>>,
                       isError |-> TRUE]>>

\* a 404 with status text Not Found
C9_Witness ==
    \E c \in CallIds :
        /\ HttpFailure(c)
        /\ calls[c].outcome[1].error.response[1].status = 404
        /\ calls[c].returned[1].content[1].text =
               <<"Error: ", "OpenAlex API error: ", "4", "0", "4", " - ", "Not Found">>
        /\ IsErrorEnvelope(calls[c].returned[1])

(***************************************************************************)
(* C10: when the request fails without an HTTP response (network failure,  *)
(* timeout, DNS, connection refused), the failure is propagated unchanged: *)
(* the envelope's text is "Error: " followed by the failure's own message, *)
(* without a status or an API-name prefix.                                 *)
(***************************************************************************)
C10_TransportFailureUnchanged ==
    \A c \in CallIds :
        (Settled(c) /\ calls[c].outcome[1].kind = "reject"
            /\ calls[c].outcome[1].error.response = <<>>) =>
            calls[c].returned =
                <<[content |-> <<[type |-> "text",
                                  text |-> <<"Error: ">> \o calls[c].outcome[1].error.message]>>,
                   isError |-> TRUE]>>

(***************************************************************************)
(* C11: a tool call makes a single attempt.  In every step a call has      *)
(* issued at most one HTTP request, and the step that settles that request *)
(* ends the call: no further request is issued, the call returns its one   *)
(* envelope at once, and when the request failed (HTTP error, failure      *)
(* without response, other error) that envelope is the error envelope.     *)
(***************************************************************************)
C11_SingleAttempt ==
    [][\A c \in CallIds :
          /\ Len(calls'[c].requests) <= 1
          /\ (calls[c].pc = "awaiting" /\ calls'[c] # calls[c]) =>
                 /\ calls'[c].pc = "done"
                 /\ calls'[c].requests = calls[c].requests
                 /\ Len(calls'[c].outcome) = 1
                 /\ Len(calls'[c].returned) = 1
                 /\ calls'[c].outcome[1].kind = "reject" =>
                        IsErrorEnvelope(calls'[c].returned[1])]_vars

\* the one request of a summary search timed out and the call is over
C11_Witness ==
    \E c \in CallIds :
        /\ calls[c].pc = "done"
        /\ calls[c].cont = "summary"
        /\ Len(calls[c].requests) = 1
        /\ calls[c].outcome = <<Reject(AxiosError(<<"timeout of 30000ms exceeded">>, <<>>))>>
        /\ IsErrorEnvelope(calls[c].returned[1])

(***************************************************************************)
(* Reading JSON text back, as the client's JSON.parse does: the value      *)
(* written from position i of the text, and the position after it.         *)
(***************************************************************************)
IsSpace(tok) == tok \in {"\n", "  ", " "}
IsDigit(tok) == tok \in {"0", "1", "2", "3", "4", "5", "6", "7", "8", "9"}
DigitValue(tok) == CHOOSE d \in 0..9 : Digit(d) = tok

UnescapeTok(tok) ==
    CASE tok = "\\\"" -> "\""
      [] tok = "\\\\" -> "\\"
      [] OTHER -> tok

RECURSIVE SkipSpace(_, _)
SkipSpace(text, i) ==
    IF i <= Len(text) /\ IsSpace(text[i]) THEN SkipSpace(text, i + 1) ELSE i

\* the position of the quote that closes the string whose content starts at i
RECURSIVE StringEnd(_, _)
StringEnd(text, i) == IF text[i] = "\"" THEN i ELSE StringEnd(text, i + 1)

RECURSIVE ParseDigits(_, _, _)
ParseDigits(text, i, acc) ==
    IF i <= Len(text) /\ IsDigit(text[i])
    THEN ParseDigits(text, i + 1, 10 * acc + DigitValue(text[i]))
    ELSE [v |-> Num(acc), next |-> i]

ParseString(text, i) ==
    LET close == StringEnd(text, i + 1)
    IN  [v |-> [j \in 1..(close - i - 1) |-> UnescapeTok(text[i + j])], next |-> close + 1]

RECURSIVE ParseValue(_, _), ParseItems(_, _, _), ParseProps(_, _, _)
ParseValue(text, at) ==
    LET i == SkipSpace(text, at)
        tok == text[i]
    IN  CASE tok = "null" -> [v |-> Null, next |-> i + 1]
          [] tok = "true" -> [v |-> Bool(TRUE), next |-> i + 1]
          [] tok = "false" -> [v |-> Bool(FALSE), next |-> i + 1]
          [] tok = "[]" -> [v |-> Arr(<<>>), next |-> i + 1]
          [] tok = "{}" -> [v |-> Obj(<<>>), next |-> i + 1]
          [] tok = "\"" -> LET str == ParseString(text, i)
                           IN  [v |-> Str(str.v), next |-> str.next]
          [] tok = "[" -> ParseItems(text, i + 1, <<>>)
          [] tok = "{" -> ParseProps(text, i + 1, <<>>)
          [] OTHER -> ParseDigits(text, i, 0)

\* the items of an array, after [ or after a comma
ParseItems(text, at, acc) ==
    LET item == ParseValue(text, at)
        j == SkipSpace(text, item.next)
    IN  IF text[j] = ","
        THEN ParseItems(text, j + 1, Append(acc, item.v))
        ELSE [v |-> Arr(Append(acc, item.v)), next |-> j + 1]

\* the properties of an object, after { or after a comma
ParseProps(text, at, acc) ==
    LET key == ParseString(text, SkipSpace(text, at))
        val == ParseValue(text, key.next + 1)
        j == SkipSpace(text, val.next)
        one == IF Len(key.v) = 1 THEN key.v[1] ELSE ""
    IN  IF text[j] = ","
        THEN ParseProps(text, j + 1, Append(acc, Entry(one, val.v)))
        ELSE [v |-> Obj(Append(acc, Entry(one, val.v))), next |-> j + 1]

JSONParse(text) == ParseValue(text, 1).v

(***************************************************************************)
(* Reading the payload of searchWorks' envelope.                           *)
(***************************************************************************)
SwSucceeded == sw.pc = "done" /\ sw.outcome # <<>> /\ sw.result[1].kind = "return"
SwSummary == SwSucceeded /\ Get(sw.args, "view") = Str(<<"summary">>)
SwUpstream == sw.outcome[1].data
SwReturned == JSONParse(sw.result[1].value.content[1].text)

Keys(v) == {v.ent[i].k : i \in 1..Len(v.ent)}
FirstN(list, n) == [i \in 1..(IF Len(list) < n THEN Len(list) ELSE n) |-> list[i]]
ListLen(item, key) == IF Get(item, key).t = "arr" THEN Len(Get(item, key).items) ELSE 0

(***************************************************************************)
(* C12: for search_works with view = "summary", every result item of the   *)
(* returned payload has at most 5 authorships and at most 3 concepts, the  *)
(* first 5 and the first 3 entries of the upstream lists in their order;   *)
(* an item with at most 5 authorships and at most 3 concepts is returned   *)
(* identical to the upstream item.                                         *)
(***************************************************************************)
C12_SummaryLimits ==
    SwSummary =>
        LET upstream == Get(SwUpstream, "results").items
            returned == Get(SwReturned, "results")
        IN  /\ returned.t = "arr"
            /\ Len(returned.items) = Len(upstream)
            /\ \A i \in 1..Len(upstream) :
                  LET up == upstream[i]
                      out == returned.items[i]
                  IN  /\ ListLen(out, "authorships") <= 5
                      /\ ListLen(out, "concepts") <= 3
                      /\ Get(up, "authorships").t = "arr" =>
                             Get(out, "authorships") =
                                 Arr(FirstN(Get(up, "authorships").items, 5))
                      /\ Get(up, "concepts").t = "arr" =>
                             Get(out, "concepts") = Arr(FirstN(Get(up, "concepts").items, 3))
                      /\ (ListLen(up, "authorships") <= 5 /\ ListLen(up, "concepts") <= 3) =>
                             out = up

\* a work with 8 authorships and 5 concepts comes back with 5 and 3, next to a
\* work within the limits that comes back as it was
C12_Witness ==
    /\ SwSummary
    /\ Len(Get(SwUpstream, "results").items) = 2
    /\ ListLen(Get(SwUpstream, "results").items[1], "authorships") = 8
    /\ ListLen(Get(SwUpstream, "results").items[1], "concepts") = 5
    /\ ListLen(Get(SwReturned, "results").items[1], "authorships") = 5
    /\ ListLen(Get(SwReturned, "results").items[1], "concepts") = 3
    /\ ListLen(Get(SwUpstream, "results").items[2], "authorships") = 5
    /\ Get(SwReturned, "results").items[2] = Get(SwUpstream, "results").items[2]

(***************************************************************************)
(* C13: the summary shaping changes nothing but the two nested lists of    *)
(* each item: the returned payload has the upstream payload's top-level    *)
(* fields, each one other than results with the upstream value (meta, its  *)
(* count and cursor), as many result items in the same order, and each     *)
(* item has the upstream item's fields, each one other than authorships    *)
(* and concepts with the upstream value.                                   *)
(***************************************************************************)
C13_SummaryFrame ==
    SwSummary =>
        LET upstream == Get(SwUpstream, "results").items
            returned == Get(SwReturned, "results")
        IN  /\ Keys(SwReturned) = Keys(SwUpstream)
            /\ \A key \in Keys(SwUpstream) \ {"results"} :
                  Get(SwReturned, key) = Get(SwUpstream, key)
            /\ returned.t = "arr"
            /\ Len(returned.items) = Len(upstream)
            /\ \A i \in 1..Len(upstream) :
                  /\ Keys(returned.items[i]) = Keys(upstream[i])
                  /\ \A key \in Keys(upstream[i]) \ {"authorships", "concepts"} :
                        Get(returned.items[i], key) = Get(upstream[i], key)

\* a payload whose first work was cut comes back with its meta, count and cursor
C13_Witness ==
    /\ SwSummary
    /\ Get(SwUpstream, "results").items # <<>>
    /\ Get(SwReturned, "results").items[1] # Get(SwUpstream, "results").items[1]
    /\ Get(Get(SwReturned, "results").items[1], "cited_by_count") = Num(12)
    /\ Get(SwReturned, "meta") =
           Obj(<<Entry("count", Num(40)), Entry("next_cursor", Str(<<"c", "=">>))>>)

(***************************************************************************)
(* Reading the query of searchWorks' request.                              *)
(***************************************************************************)
QueryOf(url) == IF Occurs("?", url) THEN SubSeq(url, First("?", url) + 1, Len(url)) ELSE <<>>
SwQuery == ParseQuery(QueryOf(sw.requests[1].url))
SwValues(key) == [i \in {j \in 1..Len(SwQuery) : SwQuery[j].k = <<key>>} |-> SwQuery[i].v]

(***************************************************************************)
(* C14: for search_works the view discriminator is stripped before         *)
(* encoding: whatever the value of view in the arguments, the query string *)
(* of the request holds no view parameter, and every other argument (the   *)
(* select of C15 aside) is in the query with its own value.                *)
(***************************************************************************)
C14_ViewNeverSent ==
    sw.requests # <<>> =>
        /\ DOMAIN SwValues("view") = {}
        /\ \A i \in 1..Len(sw.args.ent) :
              LET arg == sw.args.ent[i]
              IN  (arg.k \notin {"view", "select"} /\ Present(arg.v)) =>
                      /\ Cardinality(DOMAIN SwValues(arg.k)) = 1
                      /\ \A j \in DOMAIN SwValues(arg.k) : SwValues(arg.k)[j] = ToStr(arg.v)

(***************************************************************************)
(* C15: for search_works with view = "summary" the select parameter of the *)
(* request is the fixed field list, whatever select the caller gave; with  *)
(* view absent or of any other value the caller's select is forwarded as   *)
(* it is (no select when the caller gave none) and the payload is returned *)
(* without truncation.                                                     *)
(***************************************************************************)
C15_SummarySelect ==
    sw.requests # <<>> =>
        LET select == SwValues("select")
            given == Get(sw.args, "select")
        IN  IF Get(sw.args, "view") = Str(<<"summary">>)
            THEN /\ Cardinality(DOMAIN select) = 1
                 /\ \A j \in DOMAIN select :
                       select[j] = <<"id", ",", "doi", ",", "title", ",", "publication_year",
                                     ",", "type", ",", "cited_by_count", ",", "authorships",
                                     ",", "concepts", ",", "primary_location", ",",
                                     "open_access", ",", "best_oa_location">>
            ELSE /\ IF Present(given)
                    THEN /\ Cardinality(DOMAIN select) = 1
                         /\ \A j \in DOMAIN select : select[j] = ToStr(given)
                    ELSE DOMAIN select = {}
                 /\ SwSucceeded => SwReturned = SwUpstream

\* a summary search whose caller asked for id,doi: the fixed list is sent instead
C15_Witness ==
    /\ sw.requests # <<>>
    /\ Get(sw.args, "view") = Str(<<"summary">>)
    /\ Get(sw.args, "select") = Str(<<"id", ",", "doi">>)
    /\ Cardinality(DOMAIN SwValues("select")) = 1
    /\ \A j \in DOMAIN SwValues("select") : Len(SwValues("select")[j]) = 21

(***************************************************************************)
(* C16: for every tool but search_works in its summary view, a successful  *)
(* upstream response is passed through verbatim: the text of the success   *)
(* envelope, parsed as JSON, is exactly the payload the upstream API       *)
(* returned.                                                               *)
(***************************************************************************)
C16_PayloadVerbatim ==
    \A c \in CallIds :
        (Settled(c) /\ calls[c].outcome[1].kind = "resolve"
            /\ ~(calls[c].name = "search_works"
                    /\ Get(calls[c].args, "view") = Str(<<"summary">>))) =>
            /\ Len(calls[c].returned) = 1
            /\ ~IsErrorEnvelope(calls[c].returned[1])
            /\ Len(calls[c].returned[1].content) = 1
            /\ JSONParse(calls[c].returned[1].content[1].text) = calls[c].outcome[1].data

\* search_works in its full view against an upstream list with meta.count 5
C16_Witness ==
    \E c \in CallIds :
        /\ Settled(c)
        /\ calls[c].name = "search_works"
        /\ Get(calls[c].args, "view") # Str(<<"summary">>)
        /\ calls[c].outcome[1] = Resolve(ListPayload)
        /\ Get(Get(JSONParse(calls[c].returned[1].content[1].text), "meta"), "count") = Num(5)
        /\ Len(Get(JSONParse(calls[c].returned[1].content[1].text), "results").items) = 2

(***************************************************************************)
(* C17: every tool that the README lists under Available Tools is          *)
(* invocable: a call by that name is dispatched to a handler and is never  *)
(* answered with the "Unknown tool" error.                                 *)
(***************************************************************************)
ReadmeTools ==
    {"search_works", "search_authors", "search_sources", "search_institutions",
     "search_concepts", "search_publishers", "search_funders", "get_entity",
     "autocomplete", "classify_text"}

UnknownToolAnswer(c) ==
    /\ calls[c].pc = "done"
    /\ calls[c].method = "tools/call"
    /\ Contains(calls[c].returned[1].content[1].text, <<"Unknown tool">>)

C17_ReadmeToolsInvocable ==
    \A c \in CallIds :
        (calls[c].method = "tools/call" /\ calls[c].name \in ReadmeTools) =>
            ~UnknownToolAnswer(c)

(***************************************************************************)
(* C18: the registry and the dispatch table agree.  The tool names of a    *)
(* list response are pairwise distinct; a call of a name that the list     *)
(* response holds is never answered with "Unknown tool"; and a call that   *)
(* is not answered with "Unknown tool" is of a name that the list response *)
(* holds.                                                                  *)
(***************************************************************************)
Listed(c) == calls[c].pc = "done" /\ calls[c].method = "tools/list"
NamesOf(response) == {response.tools[i].name : i \in 1..Len(response.tools)}

C18_RegistryMatchesDispatch ==
    \A c \in CallIds :
        Listed(c) =>
            LET tools == calls[c].returned[1].tools
            IN  /\ \A i, j \in 1..Len(tools) : tools[i].name = tools[j].name => i = j
                /\ \A d \in CallIds :
                      calls[d].method = "tools/call" =>
                          (calls[d].name \in NamesOf(calls[c].returned[1])
                              <=> ~UnknownToolAnswer(d))

\* next to a list response of 11 tools, a call of a listed tool has been served
C18_Witness ==
    /\ Listed("c2")
    /\ Len(calls["c2"].returned[1].tools) = 11
    /\ calls["c1"].pc = "done"
    /\ calls["c1"].name = "get_filterable_fields"
    /\ calls["c1"].args = Obj(<<Entry("entity_type", Str(<<"topics">>))>>)
    /\ ~IsErrorEnvelope(calls["c1"].returned[1])

(***************************************************************************)
(* What a call produces when it runs alone, as the first request of the    *)
(* server: its request from its own name, arguments and the environment,   *)
(* its envelope from these and the upstream outcome.                       *)
(***************************************************************************)
AloneRequests(name, args) ==
    LET r == Dispatch(name, args, env)
    IN  IF r.kind = "await" THEN <<r.request>> ELSE <<>>

AloneReturned(name, args, outcome) ==
    LET r == Dispatch(name, args, env)
    IN  IF r.kind = "await"
        THEN Catch(ToolFinish(r.cont, MakeRequestSettle(outcome[1]))).returned
        ELSE Catch(r).returned

AsAlone(call) ==
    /\ call.requests = AloneRequests(call.name, call.args)
    /\ call.pc = "done" => call.returned = AloneReturned(call.name, call.args, call.outcome)

C21_ConfigurationReadOnce ==
    rq.requests # <<>> =>
        LET headers == rq.requests[1].headers
            mailto == Get(rq.params, "mailto")
            token == Get(rq.params, "bearer_token")
        IN  /\ ~Truthy(mailto) =>
                   headers["User-Agent"] =
                       UserAgentProduct \o <<" mailto:">>
                           \o (IF Truthy(startup.OPENALEX_DEFAULT_EMAIL)
                               THEN startup.OPENALEX_DEFAULT_EMAIL.s
                               ELSE <<"mcp-server@example.com">>)
            /\ ~Truthy(token) =>
                   IF Truthy(startup.OPENALEX_BEARER_TOKEN)
                   THEN /\ "Authorization" \in DOMAIN headers
                        /\ headers["Authorization"] =
                               <<"Bearer ">> \o startup.OPENALEX_BEARER_TOKEN.s
                   ELSE "Authorization" \notin DOMAIN headers

(***************************************************************************)
(* C22: if every request that was issued settles (response, failure, or    *)
(* the 30000 ms timeout), every call is answered with exactly one          *)
(* envelope: a call that awaits its request is eventually done with one    *)
(* envelope returned, a call that is not awaiting has returned its one     *)
(* envelope already, and a waiting call waits for its own request only:    *)
(* it can go on whatever the other calls do.                               *)
(***************************************************************************)
C22_EveryCallAnswered ==
    /\ \A c \in CallIds :
          (calls[c].pc = "awaiting") ~>
              (calls[c].pc = "done" /\ Len(calls[c].returned) = 1)
    /\ [](\A c \in CallIds :
            /\ calls[c].pc = "awaiting" =>
                   /\ ENABLED Respond(c)
                   /\ Len(calls[c].requests) = 1
                   /\ calls[c].requests[1].timeout = 30000
            /\ (calls[c].method = "tools/call" /\ calls[c].pc # "awaiting") =>
                   Len(calls[c].returned) = 1)

\* c1 was answered with the envelope of a 429 while c2 was still waiting
C22_Witness ==
    /\ calls["c1"].pc = "done"
    /\ calls["c1"].outcome =
           <<Reject(AxiosError(<<"Request failed with status code 429">>,
                               <<[status |-> 429, statusText |-> <<>>]>>))>>
    /\ Len(calls["c1"].returned) = 1
    /\ calls["c2"].pc = "awaiting"

(***************************************************************************)
(* Reading the request of a call: the endpoint of each remote tool and the *)
(* query string that follows base URL and endpoint.                        *)
(***************************************************************************)
EndpointFor(name, args) ==
    CASE name = "search_works" -> <<"/works">>
      [] name = "search_authors" -> <<"/authors">>
      [] name = "search_sources" -> <<"/sources">>
      [] name = "search_institutions" -> <<"/institutions">>
      [] name = "search_topics" -> <<"/topics">>
      [] name = "search_publishers" -> <<"/publishers">>
      [] name = "search_funders" -> <<"/funders">>
      [] name = "autocomplete" -> <<"/autocomplete">>
      [] name = "classify_text" -> <<"/text">>
      [] name = "get_entity" ->
            <<"/">> \o ToStr(Get(args, "entity_type")) \o <<"/">>
                \o ToStr(Get(args, "openalex_id"))

Requested(c) == calls[c].method = "tools/call" /\ calls[c].requests # <<>>
UrlOf(c) == calls[c].requests[1].url
PathOf(c) == <<"https://api.openalex.org">> \o EndpointFor(calls[c].name, calls[c].args)
\* what follows base URL and endpoint, without its leading ?
QueryStringOf(c) == SubSeq(UrlOf(c), Len(PathOf(c)) + 2, Len(UrlOf(c)))
QueryKeys(c) ==
    LET q == ParseQuery(QueryStringOf(c)) IN {q[i].k : i \in 1..Len(q)}

(***************************************************************************)
(* C23: get_entity, autocomplete and classify_text forward a whitelist of  *)
(* parameters only: get_entity select and the identification and auth      *)
(* parameters, autocomplete search, type, per_page and the identification  *)
(* and auth parameters, classify_text title, abstract and mailto.  No      *)
(* other argument key is in the query string of the request.               *)
(***************************************************************************)
AuthKeys == {<<"mailto">>, <<"api_key">>, <<"bearer_token">>}

Whitelist(name) ==
    CASE name = "get_entity" -> {<<"select">>} \cup AuthKeys
      [] name = "autocomplete" -> {<<"search">>, <<"type">>, <<"per_page">>} \cup AuthKeys
      [] name = "classify_text" -> {<<"title">>, <<"abstract">>, <<"mailto">>}

C23_WhitelistOnly ==
    \A c \in CallIds :
        (Requested(c) /\ calls[c].name \in {"get_entity", "autocomplete", "classify_text"}) =>
            QueryKeys(c) \subseteq Whitelist(calls[c].name)

(***************************************************************************)
(* C24: each remote tool sends a GET request to its endpoint under the     *)
(* base URL, with Accept: application/json and a User-Agent header.  The   *)
(* URL is the base URL and the endpoint, followed by ? and the encoded     *)
(* query when there is one; for get_entity the endpoint is /, the          *)
(* entity_type, / and the openalex_id, both as given, and neither          *)
(* entity_type nor openalex_id is a parameter of the encoded query.        *)
(***************************************************************************)
C24_EndpointPerTool ==
    \A c \in CallIds :
        Requested(c) =>
            LET request == calls[c].requests[1]
                path == PathOf(c)
                rest == SubSeq(request.url, Len(path) + 1, Len(request.url))
            IN  /\ request.method = "GET"
                /\ request.headers["Accept"] = <<"application/json">>
                /\ "User-Agent" \in DOMAIN request.headers
                /\ request.headers["User-Agent"] # <<>>
                /\ Len(request.url) >= Len(path)
                /\ SubSeq(request.url, 1, Len(path)) = path
                /\ rest # <<>> => (rest[1] = "?" /\ Count("?", rest) = 1)
                /\ calls[c].name = "get_entity" =>
                       QueryKeys(c) \cap {<<"entity_type">>, <<"openalex_id">>} = {}

\* a lookup of W1 with a select: the id is in the path, the select in the query
C24_Witness ==
    \E c \in CallIds :
        /\ Requested(c)
        /\ calls[c].name = "get_entity"
        /\ calls[c].requests[1].method = "GET"
        /\ UrlOf(c) = <<"https://api.openalex.org", "/", "works", "/", "W", "1",
                        "?", "select", "=", "id">>

\* C24 as stated: entity_type and openalex_id are in the path of the URL only,
\* the query string of the URL, what follows its first ?, being the encoded query
C24_AsStated ==
    \A c \in CallIds :
        Requested(c) =>
            /\ SubSeq(UrlOf(c), 1, Len(PathOf(c))) = PathOf(c)
            /\ QueryOf(UrlOf(c)) = QueryStringOf(c)

(***************************************************************************)
(* C25: get_filterable_fields is purely local.  For an entity_type among   *)
(* works, authors, sources, institutions, topics, publishers and funders   *)
(* it returns a success envelope with the field descriptors of that kind   *)
(* and issues no request; for any other entity_type, an absent one and     *)
(* "concepts" included, it returns an error envelope whose text names the  *)
(* rejected entity_type, without a request either.                         *)
(***************************************************************************)
FilterableKinds ==
    {"works", "authors", "sources", "institutions", "topics", "publishers", "funders"}

\* the name of the first descriptor of each kind
FirstFieldName(kind) ==
    CASE kind = "works" -> <<"authorships.author.id">>
      [] kind = "authors" -> <<"orcid">>
      [] kind = "sources" -> <<"issn">>
      [] kind = "institutions" -> <<"ror">>
      [] kind = "topics" -> <<"domain.id">>
      [] kind = "publishers" -> <<"country_codes">>
      [] kind = "funders" -> <<"country_code">>

IsDescriptor(v) == v.t = "obj" /\ Keys(v) = {"name", "type", "category", "description"}

C25_FilterableFieldsLocal ==
    \A c \in CallIds :
        (calls[c].method = "tools/call" /\ calls[c].name = "get_filterable_fields"
            /\ calls[c].args.t = "obj") =>
            LET entity_type == Get(calls[c].args, "entity_type")
                envelope == calls[c].returned[1]
                text == envelope.content[1].text
            IN  /\ calls[c].pc = "done"
                /\ calls[c].requests = <<>>
                /\ Len(calls[c].returned) = 1
                /\ IF entity_type.t = "str" /\ Len(entity_type.s) = 1
                          /\ entity_type.s[1] \in FilterableKinds
                   THEN /\ ~IsErrorEnvelope(envelope)
                        /\ JSONParse(text).t = "arr"
                        /\ JSONParse(text).items # <<>>
                        /\ \A i \in 1..Len(JSONParse(text).items) :
                              IsDescriptor(JSONParse(text).items[i])
                        /\ Get(JSONParse(text).items[1], "name") =
                               Str(FirstFieldName(entity_type.s[1]))
                   ELSE /\ IsErrorEnvelope(envelope)
                        /\ Contains(text, ToStr(entity_type))

\* concepts is not a kind: the error envelope names it and nothing was requested
C25_Witness ==
    \E c \in CallIds :
        /\ calls[c].name = "get_filterable_fields"
        /\ calls[c].requests = <<>>
        /\ calls[c].returned =
               <<[content |-> <<[type |-> "text",
                                 text |-> <<"Error: ",
                                            "Unknown entity_type for get_filterable_fields: ",
                                            "concepts">>]>>,
                  isError |-> TRUE]>>

(***************************************************************************)
(* C26: required arguments are not validated before dispatch.  get_entity  *)
(* called without entity_type or without openalex_id, and autocomplete     *)
(* called without search, are not rejected locally: exactly one request is *)
(* issued, for get_entity with "undefined" in the place of the missing     *)
(* value in the path, and the envelope follows from the upstream outcome   *)
(* alone: the payload on success, an error envelope on failure.            *)
(***************************************************************************)
MissingRequired(c) ==
    /\ calls[c].method = "tools/call"
    /\ calls[c].args.t = "obj"
    /\ \/ /\ calls[c].name = "get_entity"
          /\ \/ ~HasKey(calls[c].args.ent, "entity_type")
             \/ ~HasKey(calls[c].args.ent, "openalex_id")
       \/ /\ calls[c].name = "autocomplete"
          /\ ~HasKey(calls[c].args.ent, "search")

C26_RequiredNotValidated ==
    \A c \in CallIds :
        MissingRequired(c) =>
            /\ Len(calls[c].requests) = 1
            /\ calls[c].name = "get_entity" =>
                   LET kind == IF HasKey(calls[c].args.ent, "entity_type")
                               THEN Get(calls[c].args, "entity_type").s
                               ELSE <<"undefined">>
                       id == IF HasKey(calls[c].args.ent, "openalex_id")
                             THEN Get(calls[c].args, "openalex_id").s
                             ELSE <<"undefined">>
                       path == <<"https://api.openalex.org", "/">> \o kind \o <<"/">> \o id
                   IN  SubSeq(UrlOf(c), 1, Len(path)) = path
            /\ calls[c].name = "autocomplete" =>
                   /\ SubSeq(UrlOf(c), 1, 2) = <<"https://api.openalex.org", "/autocomplete">>
                   /\ <<"search">> \notin QueryKeys(c)
            /\ calls[c].pc = "done" =>
                   /\ Len(calls[c].outcome) = 1
                   /\ Len(calls[c].returned) = 1
                   /\ IF calls[c].outcome[1].kind = "resolve"
                      THEN /\ ~IsErrorEnvelope(calls[c].returned[1])
                           /\ JSONParse(calls[c].returned[1].content[1].text) =
                                  calls[c].outcome[1].data
                      ELSE IsErrorEnvelope(calls[c].returned[1])

\* a lookup without entity_type and openalex_id was sent to /undefined/undefined
\* and answered with the upstream's 404
C26_Witness ==
    \E c \in CallIds :
        /\ MissingRequired(c)
        /\ calls[c].name = "get_entity"
        /\ UrlOf(c) = <<"https://api.openalex.org", "/", "undefined", "/", "undefined">>
        /\ calls[c].pc = "done"
        /\ calls[c].outcome[1].kind = "reject"
        /\ calls[c].returned[1].content[1].text =
               <<"Error: ", "OpenAlex API error: ", "4", "0", "4", " - ", "Not Found">>

(***************************************************************************)
(* C27: a call without an arguments mapping.  search_authors,              *)
(* search_sources, search_institutions, search_topics, search_publishers,  *)
(* search_funders and autocomplete issue one request without a query       *)
(* string; search_works, get_entity, classify_text and                     *)
(* get_filterable_fields fail on destructuring the absent arguments and    *)
(* return an error envelope without issuing a request.                     *)
(***************************************************************************)
ForwardingTools ==
    {"search_authors", "search_sources", "search_institutions", "search_topics",
     "search_publishers", "search_funders", "autocomplete"}
DestructuringTools == {"search_works", "get_entity", "classify_text", "get_filterable_fields"}

C27_AbsentArguments ==
    \A c \in CallIds :
        (calls[c].method = "tools/call" /\ calls[c].args = Undefined) =>
            /\ calls[c].name \in ForwardingTools =>
                   /\ Len(calls[c].requests) = 1
                   /\ UrlOf(c) = PathOf(c)
                   /\ ~Occurs("?", UrlOf(c))
            /\ calls[c].name \in DestructuringTools =>
                   /\ calls[c].pc = "done"
                   /\ calls[c].requests = <<>>
                   /\ calls[c].outcome = <<>>
                   /\ Len(calls[c].returned) = 1
                   /\ IsErrorEnvelope(calls[c].returned[1])
                   /\ Contains(calls[c].returned[1].content[1].text,
                               <<"Cannot destructure property '">>)

\* search_topics without arguments asks for /topics; nothing follows the path
C27_Witness ==
    \E c \in CallIds :
        /\ calls[c].method = "tools/call"
        /\ calls[c].args = Undefined
        /\ calls[c].name = "search_topics"
        /\ calls[c].requests # <<>>
        /\ calls[c].requests[1].url = <<"https://api.openalex.org", "/topics">>

(***************************************************************************)
(* C28: for the search tools and autocomplete, a bearer_token, api_key or   *)
(* mailto of the arguments is encoded in the query string of the URL, with  *)
(* its own value; a bearer_token of the arguments is in the Authorization   *)
(* header as well.  A token taken from the environment is in the            *)
(* Authorization header only: no parameter of the URL carries it.          *)
(***************************************************************************)
QueryPairs(c) ==
    LET q == ParseQuery(QueryStringOf(c)) IN {<<q[i].k, q[i].v>> : i \in 1..Len(q)}
HeadersOf(c) == calls[c].requests[1].headers
Authorization(c) ==
    IF "Authorization" \in DOMAIN HeadersOf(c) THEN HeadersOf(c)["Authorization"] ELSE <<>>

C28_WitnessApiKey ==
    \E c \in CallIds :
        /\ Requested(c)
        /\ calls[c].name = "autocomplete"
        /\ <<<<"api_key">>, <<"k">>>> \in QueryPairs(c)

\* the token of the environment is sent, in the header and nowhere in the URL
C28_WitnessEnvironment ==
    \E c \in CallIds :
        /\ Requested(c)
        /\ calls[c].name = "search_sources"
        /\ ~Truthy(Get(calls[c].args, "bearer_token"))
        /\ Authorization(c) = <<"Bearer ", "e">>
        /\ QueryPairs(c) # {}

(***************************************************************************)
(* C29: search_works with view = "summary" needs a results array in the    *)
(* upstream payload.  When the upstream call succeeds with a payload       *)
(* without a results array (a grouped response), the call returns an error *)
(* envelope and not the payload; the same arguments without                *)
(* view = "summary" return that payload as a success.                      *)
(***************************************************************************)
NoResultsArray(c) ==
    /\ calls[c].method = "tools/call"
    /\ calls[c].name = "search_works"
    /\ calls[c].args.t = "obj"
    /\ calls[c].pc = "done"
    /\ calls[c].outcome # <<>>
    /\ calls[c].outcome[1].kind = "resolve"
    /\ Get(calls[c].outcome[1].data, "results").t # "arr"

IsSuccessWith(returned, payload) ==
    /\ Len(returned) = 1
    /\ IsEnvelope(returned[1])
    /\ ~IsErrorEnvelope(returned[1])
    /\ JSONParse(returned[1].content[1].text) = payload

C29_SummaryNeedsResults ==
    \A c \in CallIds :
        NoResultsArray(c) =>
            LET payload == calls[c].outcome[1].data
                plain == Without(calls[c].args, "view")
            IN  /\ Get(calls[c].args, "view") = Str(<<"summary">>) =>
                       /\ Len(calls[c].returned) = 1
                       /\ IsEnvelope(calls[c].returned[1])
                       /\ IsErrorEnvelope(calls[c].returned[1])
                       /\ calls[c].returned[1].content[1].text # JSONStringify(payload)
                       /\ SubSeq(calls[c].returned[1].content[1].text, 1, 1) = <<"Error: ">>
                /\ Get(calls[c].args, "view") # Str(<<"summary">>) =>
                       IsSuccessWith(calls[c].returned, payload)
                /\ AloneRequests("search_works", plain) # <<>>
                /\ IsSuccessWith(AloneReturned("search_works", plain, calls[c].outcome),
                                 payload)

\* a summary call answered with the grouped payload ends in the TypeError text
C29_Witness ==
    \E c \in CallIds :
        /\ NoResultsArray(c)
        /\ Get(calls[c].args, "view") = Str(<<"summary">>)
        /\ calls[c].outcome = <<Resolve(GroupedPayload)>>
        /\ calls[c].returned =
               <<[content |-> <<[type |-> "text",
                                 text |-> <<"Error: ", "Cannot read properties of ",
                                            "undefined", " (reading 'map')">>]>>,
                  isError |-> TRUE]>>

\* the grouped payload reaches a caller that did not ask for the summary
C29_WitnessPlain ==
    \E c \in CallIds :
        /\ NoResultsArray(c)
        /\ ~HasKey(calls[c].args.ent, "view")
        /\ IsSuccessWith(calls[c].returned, GroupedPayload)

(***************************************************************************)
(* C30: the request is a function of the invocation and the environment.   *)
(* Two invocations with the same tool name, the same arguments and the     *)
(* same environment values build the same URL and the same headers, and    *)
(* with the same upstream response they return the same envelope.  The     *)
(* client's argument mapping is after the invocations what it was before   *)
(* them: the summary view sets select on a copy.                           *)
(***************************************************************************)
Invoked(c) == calls[c].method = "tools/call" /\ caller.used[c] # <<>>

C30_WitnessOtherEnvironment ==
    /\ Invoked("c1")
    /\ Invoked("c2")
    /\ caller.used["c1"] # caller.used["c2"]
    /\ calls["c1"].requests # <<>>
    /\ calls["c2"].requests # <<>>
    /\ calls["c1"].requests[1].headers # calls["c2"].requests[1].headers
    /\ calls["c1"].requests[1].url = calls["c2"].requests[1].url

====
